---- MODULE Spec2Model ----
(***************************************************************************)
(* TFTP (RFC 1350): the packet codec and the per-transfer Connection       *)
(* engine (get = receive, put = send) of the tftp crate, with the two      *)
(* engines joined by a pair of datagram channels.                          *)
(*                                                                         *)
(* Datagrams are sequences of bytes (0..255), exactly as they cross the    *)
(* socket; the engines encode with into_bytes and decode with from_bytes.  *)
(* Option<T> is modelled as a set: None is {} and Some(x) is {x}.          *)
(***************************************************************************)
EXTENDS Integers, Sequences, FiniteSets, TLC

(***************************************************************************)
(* Program constants.                                                      *)
(***************************************************************************)
MAX_PAYLOAD_SIZE == 512

MAX_PACKET_SIZE == 516

U16 == 65536

(***************************************************************************)
(* Bounds of the model.                                                    *)
(***************************************************************************)
\* the reader holds at most MaxBlocks full blocks (plus a short tail)
MaxBlocks == 1

\* the largest cap N of max_retransmissions = Some(N) that is explored
MaxRetrans == 1

\* read deadlines that expire in one run (caps the unbounded None policy)
MaxTimeouts == 2

\* datagrams the network duplicates in one run
MaxDups == 1

\* datagrams that reach a socket in one run without having been sent by the
\* engine at the other end
MaxInject == 1

\* how many datagrams clients send to the server's socket
MaxRequests == 3

None == {}

Some(x) == {x}

Unwrap(o) == CHOOSE x \in o : TRUE

Min(a, b) == IF a < b THEN a ELSE b

\* the first n bytes of a buffer (&buf[..n] after a recv into a buffer)
Take(s, n) == SubSeq(s, 1, Min(n, Len(s)))

Drop(s, n) == SubSeq(s, n + 1, Len(s))

RemoveAt(s, i) == SubSeq(s, 1, i - 1) \o SubSeq(s, i + 1, Len(s))

(***************************************************************************)
(* Results of the decoders: Ok(value), Err(kind), or a panic of the        *)
(* decoding thread (slice operations on a buffer that is too short).       *)
(***************************************************************************)
Ok(v) == [tag |-> "ok", val |-> v]

Err(k) == [tag |-> "err", kind |-> k]

Panic == [tag |-> "panic"]

IsOk(r) == r.tag = "ok"

IsErr(r) == r.tag = "err"

(***************************************************************************)
(* bytes.rs: big-endian u16 and NUL-terminated strings.                    *)
(***************************************************************************)
\* Bytes<u16>::into_bytes: u16::to_be_bytes
U16IntoBytes(v) == <<v \div 256, v % 256>>

\* Bytes<u16>::from_bytes: more than two bytes is an error; copy_from_slice
\* panics when the slice is not exactly two bytes long
U16FromBytes(bytes) ==
    IF Len(bytes) > 2 THEN Err("InvalidInput")
    ELSE IF Len(bytes) # 2 THEN Panic
    ELSE Ok(bytes[1] * 256 + bytes[2])

\* str::from_utf8 on bytes[i..]: well-formed UTF-8 (no overlong forms, no
\* surrogates, nothing above U+10FFFF)
RECURSIVE Utf8From(_, _)
Utf8From(bytes, i) ==
    LET n == Len(bytes)
        Cont(j) == j <= n /\ bytes[j] >= 128 /\ bytes[j] <= 191
        b == bytes[i]
    IN  IF i > n THEN TRUE
        ELSE IF b < 128 THEN Utf8From(bytes, i + 1)
        ELSE IF b >= 194 /\ b <= 223
            THEN Cont(i + 1) /\ Utf8From(bytes, i + 2)
        ELSE IF b >= 224 /\ b <= 239
            THEN /\ Cont(i + 1) /\ Cont(i + 2)
                 /\ (b = 224 => bytes[i + 1] >= 160)
                 /\ (b = 237 => bytes[i + 1] <= 159)
                 /\ Utf8From(bytes, i + 3)
        ELSE IF b >= 240 /\ b <= 244
            THEN /\ Cont(i + 1) /\ Cont(i + 2) /\ Cont(i + 3)
                 /\ (b = 240 => bytes[i + 1] >= 144)
                 /\ (b = 244 => bytes[i + 1] <= 143)
                 /\ Utf8From(bytes, i + 4)
        ELSE FALSE

\* Bytes<String>::from_bytes: CStr::from_bytes_with_nul (exactly one NUL, the
\* last byte) and then to_str (UTF-8); the value is the text without the NUL
StringFromBytes(bytes) ==
    LET n == Len(bytes) IN
    IF n = 0 \/ bytes[n] # 0 THEN Err("InvalidInput")
    ELSE IF \E i \in 1..(n - 1) : bytes[i] = 0 THEN Err("InvalidInput")
    ELSE IF ~Utf8From(SubSeq(bytes, 1, n - 1), 1) THEN Err("InvalidInput")
    ELSE Ok(SubSeq(bytes, 1, n - 1))

\* Bytes<String>::into_bytes leaving out the closing NUL
StringIntoBytesUnterminated(s) == Ok(s)

\* Bytes<String>::into_bytes: CString::new(..).unwrap() panics on an interior
\* NUL; otherwise the text followed by one NUL
StringIntoBytes(s) ==
    IF \E i \in 1..Len(s) : s[i] = 0 THEN Panic ELSE Ok(s \o <<0>>)

(***************************************************************************)
(* packet/opcode.rs and packet/error.rs: the enumerations.                 *)
(***************************************************************************)
OpRrq == 1

OpWrq == 2

OpData == 3

OpAck == 4

OpError == 5

\* Opcode::from_u16
OpcodeFromU16(val) ==
    IF val \in {OpRrq, OpWrq, OpData, OpAck, OpError}
    THEN Ok(val) ELSE Err("InvalidInput")

\* Opcode::from_bytes
OpcodeFromBytes(bytes) ==
    LET b == U16FromBytes(bytes) IN
    IF IsOk(b) THEN OpcodeFromU16(b.val) ELSE b

CodeNotDefined == 0

CodeFileNotFound == 1

CodeAccessViolation == 2

CodeDiskFull == 3

CodeIllegalOperation == 4

CodeUnknownTid == 5

CodeFileAlreadyExists == 6

CodeNoSuchUser == 7

\* Code::from_u16
CodeFromU16(val) ==
    IF val \in 0..7 THEN Ok(val) ELSE Err("InvalidInput")

\* Code::from_bytes
CodeFromBytes(bytes) ==
    LET b == U16FromBytes(bytes) IN
    IF IsOk(b) THEN CodeFromU16(b.val) ELSE b

\* the text of Code::IllegalOperation ("Illegal TFTP operation")
MsgIllegalOperation ==
    <<73, 108, 108, 101, 103, 97, 108, 32, 84, 70, 84, 80, 32,
      111, 112, 101, 114, 97, 116, 105, 111, 110>>

\* Code::as_str, for the one code the engine passes to it
CodeAsStr(code) ==
    IF code = CodeIllegalOperation THEN MsgIllegalOperation ELSE <<>>

(***************************************************************************)
(* packet/data.rs, packet/ack.rs, packet/error.rs: the packet bodies.      *)
(***************************************************************************)
\* Data::from_bytes
DataFromBytes(bytes) ==
    IF 2 > Len(bytes) THEN Err("InvalidInput")
    ELSE LET block == U16FromBytes(SubSeq(bytes, 1, 2)) IN
         IF IsOk(block)
         THEN Ok([block |-> block.val, data |-> Drop(bytes, 2)])
         ELSE block

\* Data::into_bytes
DataIntoBytes(body) == U16IntoBytes(body.block) \o body.data

\* Ack::from_bytes
AckFromBytes(bytes) ==
    IF Len(bytes) # 2 THEN Err("InvalidInput")
    ELSE LET block == U16FromBytes(SubSeq(bytes, 1, 2)) IN
         IF IsOk(block) THEN Ok([block |-> block.val]) ELSE block

\* Ack::into_bytes
AckIntoBytes(body) == U16IntoBytes(body.block)

\* Error::from_bytes: split_at(2) panics on fewer than two bytes
ErrorFromBytes(bytes) ==
    IF Len(bytes) < 2 THEN Panic
    ELSE LET code == CodeFromBytes(SubSeq(bytes, 1, 2))
             message == StringFromBytes(Drop(bytes, 2))
         IN  IF ~IsOk(code) THEN code
             ELSE IF ~IsOk(message) THEN message
             ELSE Ok([code |-> code.val, message |-> message.val])

\* Error::into_bytes
ErrorIntoBytes(body) ==
    U16IntoBytes(body.code) \o StringIntoBytes(body.message).val

(***************************************************************************)
(* packet/mod.rs: Packet<T>.                                               *)
(***************************************************************************)
\* Packet::data
PacketData(block, data) ==
    [header |-> OpData, body |-> [block |-> block, data |-> data]]

\* Packet::ack
PacketAck(block) == [header |-> OpAck, body |-> [block |-> block]]

\* Packet::error
PacketError(code, message) ==
    [header |-> OpError, body |-> [code |-> code, message |-> message]]

\* str::to_ascii_lowercase
ToAsciiLowercase(s) ==
    [i \in DOMAIN s |-> IF s[i] >= 65 /\ s[i] <= 90 THEN s[i] + 32 ELSE s[i]]

\* "mail", "netascii", "octet"
ModeNames ==
    {<<109, 97, 105, 108>>,
     <<110, 101, 116, 97, 115, 99, 105, 105>>,
     <<111, 99, 116, 101, 116>>}

\* Mode::from_bytes: the text up to the closing NUL, and Mode::from_str on
\* it, which goes by the lower-cased text
ModeFromBytes(bytes) ==
    LET t == StringFromBytes(bytes) IN
    IF ~IsOk(t) THEN t
    ELSE IF ToAsciiLowercase(t.val) \in ModeNames
    THEN Ok(ToAsciiLowercase(t.val))
    ELSE Err("InvalidInput")

\* Rq::from_bytes: the file name up to and with the first NUL, the mode
\* after it
RqFromBytes(bytes) ==
    IF \A i \in DOMAIN bytes : bytes[i] # 0 THEN Err("InvalidInput")
    ELSE LET first_nul == CHOOSE i \in DOMAIN bytes :
                              bytes[i] = 0 /\ \A j \in 1..(i - 1) : bytes[j] # 0
             filename == StringFromBytes(Take(bytes, first_nul))
             mode == ModeFromBytes(Drop(bytes, first_nul))
         IN  IF ~IsOk(filename) THEN filename
             ELSE IF ~IsOk(mode) THEN mode
             ELSE Ok([filename |-> filename.val, mode |-> mode.val])

\* T::from_bytes for the body type whose OPCODE is op
BodyFromBytes(op, bytes) ==
    IF op = OpData THEN DataFromBytes(bytes)
    ELSE IF op \in {OpRrq, OpWrq} THEN RqFromBytes(bytes)
    ELSE IF op = OpAck THEN AckFromBytes(bytes)
    ELSE IF op = OpError THEN ErrorFromBytes(bytes)
    ELSE Err("InvalidInput")

\* Packet<T>::from_bytes with T::OPCODE = op: split_at(2) panics on fewer
\* than two bytes; a foreign opcode and a bad body are InvalidData
PacketFromBytes(op, bytes) ==
    IF Len(bytes) < 2 THEN Panic
    ELSE LET opcode == OpcodeFromBytes(SubSeq(bytes, 1, 2)) IN
         IF ~IsOk(opcode) THEN opcode
         ELSE IF opcode.val # op THEN Err("InvalidData")
         ELSE LET body == BodyFromBytes(op, Drop(bytes, 2)) IN
              IF IsOk(body) THEN Ok([header |-> opcode.val, body |-> body.val])
              ELSE IF IsErr(body) THEN Err("InvalidData")
              ELSE body

\* Mode::into_bytes: the mode's name and a NUL; a Mode is written here as
\* its name
ModeIntoBytes(mode) == StringIntoBytes(mode).val

\* Rq::into_bytes: the file name and a NUL, then the mode
RqIntoBytes(body) ==
    StringIntoBytes(body.filename).val \o ModeIntoBytes(body.mode)

\* Packet::rrq
PacketRrq(filename, mode) ==
    [header |-> OpRrq, body |-> [filename |-> filename, mode |-> mode]]

\* Packet::wrq
PacketWrq(filename, mode) ==
    [header |-> OpWrq, body |-> [filename |-> filename, mode |-> mode]]

\* Packet<T>::into_bytes: the opcode, then the body
PacketIntoBytes(packet) ==
    U16IntoBytes(packet.header) \o
        (IF packet.header = OpData THEN DataIntoBytes(packet.body)
         ELSE IF packet.header = OpAck THEN AckIntoBytes(packet.body)
         ELSE IF packet.header \in {OpRrq, OpWrq}
         THEN RqIntoBytes(packet.body)
         ELSE ErrorIntoBytes(packet.body))

\* io::Error as the pair of its kind and its text
IoError(kind, message) == [kind |-> kind, message |-> message]

\* Err(io::Error) as the result of an engine operation
Fail(error) == [tag |-> "fail", error |-> error]

\* From<Packet<Error>> for io::Error
IoErrorFromPacket(err) ==
    IoError(IF err.body.code = CodeFileNotFound THEN "NotFound"
            ELSE IF err.body.code = CodeAccessViolation THEN "PermissionDenied"
            ELSE IF err.body.code = CodeFileAlreadyExists THEN "AlreadyExists"
            ELSE "Other",
            err.body.message)

\* expect_packet answering the peer's Error packet with one of its own
ExpectPacketAnswersError(op, bytes) ==
    LET packet == PacketFromBytes(op, bytes)
        err_pkt == PacketFromBytes(OpError, bytes)
        err == PacketError(CodeIllegalOperation, CodeAsStr(CodeIllegalOperation))
    IN  IF IsOk(packet) THEN [result |-> packet, sent |-> <<>>]
        ELSE IF ~IsErr(packet) THEN [result |-> Panic, sent |-> <<>>]
        ELSE IF IsOk(err_pkt)
            THEN [result |-> Fail(IoErrorFromPacket(err_pkt.val)),
                  sent |-> <<PacketIntoBytes(err)>>]
        ELSE IF ~IsErr(err_pkt) THEN [result |-> Panic, sent |-> <<>>]
        ELSE [result |-> Fail(IoErrorFromPacket(err)),
              sent |-> <<PacketIntoBytes(err)>>]

(***************************************************************************)
(* packet/expect.rs: the packet that was expected, or the error packet the *)
(* peer sent instead, or an IllegalOperation error packet sent back.       *)
(* result is Ok(packet), Fail(io::Error) or Panic; sent holds the datagram *)
(* the call handed to the socket, if any.                                  *)
(***************************************************************************)
ExpectPacket(op, bytes) ==
    LET packet == PacketFromBytes(op, bytes)
        err_pkt == PacketFromBytes(OpError, bytes)
        err == PacketError(CodeIllegalOperation, CodeAsStr(CodeIllegalOperation))
    IN  IF IsOk(packet) THEN [result |-> packet, sent |-> <<>>]
        ELSE IF ~IsErr(packet) THEN [result |-> Panic, sent |-> <<>>]
        ELSE IF IsOk(err_pkt)
            THEN [result |-> Fail(IoErrorFromPacket(err_pkt.val)), sent |-> <<>>]
        ELSE IF ~IsErr(err_pkt) THEN [result |-> Panic, sent |-> <<>>]
        ELSE [result |-> Fail(IoErrorFromPacket(err)),
              sent |-> <<PacketIntoBytes(err)>>]

(***************************************************************************)
(* The state of one transfer: a Connection::put engine reading `source`,   *)
(* a Connection::get engine filling `writer`, and the network between the  *)
(* two connected sockets.                                                  *)
(***************************************************************************)
VARIABLES
    source,          \* every byte the reader of put yields, in order
    max_retransmissions, \* Connection.max_retransmissions: Option<usize>
    read_timeout,    \* the sockets have a read timeout set
    put_pc,          \* where put is: "read", "recv", or ended
    current_block,   \* put: current_block
    put_retrans,     \* put: current_retransmissions
    reader_pos,      \* put: bytes of source the reader has handed out
    bytes_read,      \* put: bytes_read of the last reader.read
    data_bytes,      \* put: data_bytes, the encoded Data packet being sent
    put_result,      \* put: the value returned, once ended
    get_pc,          \* where get is: "recv", "ack", or ended
    last_block,      \* get: last_block: Option<Block>
    get_retrans,     \* get: current_retransmissions
    data,            \* get: the body of the Data packet being handled
    writer,          \* get: the bytes written to the writer so far
    get_result,      \* get: the value returned, once ended
    to_get,          \* datagrams on their way to get's socket, oldest first
    to_put,          \* datagrams on their way to put's socket, oldest first
    put_sent,        \* history: every datagram put handed to its socket
    put_rcvd,        \* history: every datagram put's recv returned
    get_sent,        \* history: every datagram get handed to its socket
    get_nrecv,       \* history: how many datagrams get's recv returned
    written,         \* history: the block numbers of the payloads written
    timeouts,        \* history: read deadlines expired so far
    dups,            \* history: datagrams duplicated so far
    stream_faults,   \* the reader of put and the writer of get may fail
    reader_chunk,    \* the most bytes the reader of put yields in one read
    put_send_fails,  \* send on put's socket returns an error
    get_send_fails,  \* send on get's socket returns an error
    injected,        \* history: foreign datagrams delivered so far
    active_clients_pool, \* Server.active_clients_pool: the set of client TIDs
    requests,        \* datagrams queued at the server's socket, oldest first
    requests_sent,   \* history: datagrams sent to the server's socket so far
    handlers,        \* every Handler that serve returned, in order
    serve_results,   \* history: what each call of serve returned
    serve_dir,       \* the names of the files in the served directory
    wire,            \* history: the datagrams sent towards clients, in order
    client_reply,    \* Client::put: the datagram recv_from returned, if any
    fn_input,        \* the argument a function of the codec is applied to
    fn_output        \* what the function returned for it

config ==
    <<source, max_retransmissions, read_timeout, stream_faults, reader_chunk,
      put_send_fails, get_send_fails, injected>>

put_vars ==
    <<put_pc, current_block, put_retrans, reader_pos, bytes_read, data_bytes,
      put_result, put_sent, put_rcvd>>

get_vars ==
    <<get_pc, last_block, get_retrans, data, writer, get_result, get_sent,
      get_nrecv, written>>

server_vars ==
    <<active_clients_pool, requests, requests_sent, handlers, serve_results,
      serve_dir, wire>>

client_vars == <<client_reply>>

codec_vars == <<fn_input, fn_output>>

vars ==
    <<config, put_vars, get_vars, to_get, to_put, timeouts, dups, server_vars,
      client_vars, codec_vars>>

\* the bytes of a reader of len bytes; the blocks differ from one another
SourceOf(len) ==
    [i \in 1..len |-> (i + (i - 1) \div MAX_PAYLOAD_SIZE) % 256]

\* the lengths explored: just before, at and just past every multiple of
\* the block size
SourceLens ==
    {len \in {k * MAX_PAYLOAD_SIZE + d : k \in 0..MaxBlocks, d \in {-1, 0, 1}} :
        len >= 0}

Sources == {SourceOf(len) : len \in SourceLens}

\* one block more, for the network without faults
LongSources ==
    Sources \cup {SourceOf((MaxBlocks + 1) * MAX_PAYLOAD_SIZE + d) : d \in {-1, 0, 1}}

\* None, Some(0), ..., Some(MaxRetrans)
RetransCaps == {None} \cup {Some(n) : n \in 0..MaxRetrans}

Running == [tag |-> "none"]

Returned == [tag |-> "ok"]

\* Server::new: nobody is being served; nothing has been sent to the
\* server's socket; the served directory holds the file "f"
InitServerVars ==
    /\ active_clients_pool = {}
    /\ requests = <<>>
    /\ requests_sent = 0
    /\ handlers = <<>>
    /\ serve_results = <<>>
    /\ serve_dir = {<<102>>}
    /\ wire = <<>>

\* Connection::new for both ends, and the locals of get and put at entry,
\* with put at pc; the server has served nobody
InitAt(pc) ==
    /\ InitServerVars
    /\ client_reply = None
    /\ max_retransmissions \in RetransCaps
    /\ put_pc = pc
    /\ current_block = 1
    /\ put_retrans = 0
    /\ reader_pos = 0
    /\ bytes_read = 0
    /\ data_bytes = <<>>
    /\ put_result = Running
    /\ get_pc = "recv"
    /\ last_block = None
    /\ get_retrans = 0
    /\ data = [block |-> 0, data |-> <<>>]
    /\ writer = <<>>
    /\ get_result = Running
    /\ to_get = <<>>
    /\ to_put = <<>>
    /\ put_sent = <<>>
    /\ put_rcvd = <<>>
    /\ get_sent = <<>>
    /\ get_nrecv = 0
    /\ written = <<>>
    /\ timeouts = 0
    /\ dups = 0
    /\ put_send_fails = FALSE
    /\ get_send_fails = FALSE
    /\ injected = 0

\* Connection::new for both ends, and the locals of get and put at entry;
\* the server has served nobody
InitEngines ==
    /\ InitAt("read")
    /\ reader_chunk = MAX_PAYLOAD_SIZE
    /\ fn_input = None
    /\ fn_output = None

\* both sockets have a read timeout set; reader and writer do not fail
Init ==
    /\ InitEngines
    /\ source \in Sources
    /\ read_timeout = TRUE
    /\ stream_faults = FALSE

\* the operation has returned or its thread has panicked: its Connection,
\* and with it the socket, is gone
Ended(pc) == pc \in {"done", "failed", "panicked"}

\* UdpSocket::send on a connected socket: the datagrams enter the network,
\* unless the peer's socket is closed
Send(peer_pc, chan, datagrams) ==
    IF Ended(peer_pc) THEN chan ELSE chan \o datagrams

\* the datagrams still on their way to a socket once its owner is at pc:
\* whatever is addressed to a closed socket is discarded
Inbound(pc, chan) == IF Ended(pc) THEN <<>> ELSE chan

\* io::ErrorKind::WouldBlock | io::ErrorKind::TimedOut
TimeoutKinds == {"WouldBlock", "TimedOut"}

\* what recv returns when the read deadline expires (WouldBlock on Unix)
TimeoutError == [kind |-> "WouldBlock", message |-> <<>>]

\* "exceeded max retransmissions"
MsgExceeded ==
    <<101, 120, 99, 101, 101, 100, 101, 100, 32, 109, 97, 120, 32, 114, 101,
      116, 114, 97, 110, 115, 109, 105, 115, 115, 105, 111, 110, 115>>

\* check_retransmission with `>=` for `>`: gives up one retransmission early
CheckRetransmissionGe(max, error, current_retransmissions) ==
    IF error.kind \notin TimeoutKinds
    THEN [retrans |-> current_retransmissions, result |-> Fail(error),
          sent |-> <<>>]
    ELSE IF max # None /\ current_retransmissions + 1 >= Unwrap(max)
    THEN [retrans |-> current_retransmissions + 1, result |-> Fail(error),
          sent |-> <<PacketIntoBytes(PacketError(CodeNotDefined, MsgExceeded))>>]
    ELSE [retrans |-> current_retransmissions + 1, result |-> Returned,
          sent |-> <<>>]

\* check_retransmission comparing the counter before incrementing it: allows
\* one retransmission more than max
CheckRetransmissionLate(max, error, current_retransmissions) ==
    IF error.kind \notin TimeoutKinds
    THEN [retrans |-> current_retransmissions, result |-> Fail(error),
          sent |-> <<>>]
    ELSE IF max # None /\ current_retransmissions > Unwrap(max)
    THEN [retrans |-> current_retransmissions + 1, result |-> Fail(error),
          sent |-> <<PacketIntoBytes(PacketError(CodeNotDefined, MsgExceeded))>>]
    ELSE [retrans |-> current_retransmissions + 1, result |-> Returned,
          sent |-> <<>>]

\* check_retransmission reading None as "no retransmission" (unwrap_or(0))
CheckRetransmissionNoneIsZero(max, error, current_retransmissions) ==
    IF error.kind \notin TimeoutKinds
    THEN [retrans |-> current_retransmissions, result |-> Fail(error),
          sent |-> <<>>]
    ELSE IF current_retransmissions + 1 > (IF max = None THEN 0 ELSE Unwrap(max))
    THEN [retrans |-> current_retransmissions + 1, result |-> Fail(error),
          sent |-> <<PacketIntoBytes(PacketError(CodeNotDefined, MsgExceeded))>>]
    ELSE [retrans |-> current_retransmissions + 1, result |-> Returned,
          sent |-> <<>>]

\* check_retransmission counting a timeout twice
CheckRetransmissionCountsTwice(max, error, current_retransmissions) ==
    IF error.kind \notin TimeoutKinds
    THEN [retrans |-> current_retransmissions, result |-> Fail(error),
          sent |-> <<>>]
    ELSE IF max # None /\ current_retransmissions + 1 > Unwrap(max)
    THEN [retrans |-> current_retransmissions + 1, result |-> Fail(error),
          sent |-> <<PacketIntoBytes(PacketError(CodeNotDefined, MsgExceeded))>>]
    ELSE [retrans |-> current_retransmissions + 2, result |-> Returned,
          sent |-> <<>>]

\* Connection::check_retransmission(error, &mut current_retransmissions):
\* the counter afterwards, Ok(()) or the error, and the datagram it sent
CheckRetransmission(max, error, current_retransmissions) ==
    IF error.kind \notin TimeoutKinds
    THEN [retrans |-> current_retransmissions, result |-> Fail(error),
          sent |-> <<>>]
    ELSE IF max # None /\ current_retransmissions + 1 > Unwrap(max)
    THEN [retrans |-> current_retransmissions + 1, result |-> Fail(error),
          sent |-> <<PacketIntoBytes(PacketError(CodeNotDefined, MsgExceeded))>>]
    ELSE [retrans |-> current_retransmissions + 1, result |-> Returned,
          sent |-> <<>>]

\* {} formatting of an unsigned integer
RECURSIVE Decimal(_)
Decimal(n) ==
    IF n < 10 THEN <<48 + n>> ELSE Decimal(n \div 10) \o <<48 + (n % 10)>>

\* format!("expected ACK for {:?} but got ACK for {:?}", current_block, block)
\* with a u16 and a Block
MsgUnexpectedAck(expected, block) ==
    <<101, 120, 112, 101, 99, 116, 101, 100, 32, 65, 67, 75, 32, 102, 111,
      114, 32>> \o Decimal(expected) \o
    <<32, 98, 117, 116, 32, 103, 111, 116, 32, 65, 67, 75, 32, 102, 111,
      114, 32>> \o <<66, 108, 111, 99, 107, 40>> \o Decimal(block) \o <<41>>

(***************************************************************************)
(* lib.rs: RetransmissionConfig, adapted to what set_read_timeout and      *)
(* Connection::new want.                                                   *)
(***************************************************************************)
NoRetransmission == [variant |-> "NoRetransmission"]

ForeverAfter == [variant |-> "ForeverAfter"]

\* limit is a NonZeroUsize
NTimesAfter(limit) == [variant |-> "NTimesAfter", limit |-> limit]

RetransmissionConfigs ==
    {NoRetransmission, ForeverAfter} \cup {NTimesAfter(n) : n \in 1..MaxRetrans}

\* RetransmissionConfig::timeout(..).is_some()
HasTimeout(cfg) == cfg.variant # "NoRetransmission"

\* RetransmissionConfig::max_retransmissions
MaxRetransmissionsOf(cfg) ==
    IF cfg.variant = "NoRetransmission" THEN Some(0)
    ELSE IF cfg.variant = "ForeverAfter" THEN None
    ELSE Some(cfg.limit)

(***************************************************************************)
(* Connection::put.  A step runs from one blocking recv to the next.       *)
(***************************************************************************)
\* reader.read(&mut buf): the reader fills the buffer as far as it has
\* bytes left and as far as it yields bytes in one read
ReadLen(remaining) ==
    Min(Min(MAX_PAYLOAD_SIZE, reader_chunk), remaining)

\* "Fake error"
MsgFake == <<70, 97, 107, 101, 32, 101, 114, 114, 111, 114>>

\* "denied"
MsgDenied == <<100, 101, 110, 105, 101, 100>>

\* the errors a failing reader or writer returns: the one of the tests'
\* ErroneousReader and ErroneousWriter, and one of a kind that has a TFTP
\* code of its own
StreamErrors ==
    {IoError("Other", MsgFake), IoError("PermissionDenied", MsgDenied)}

\* From<io::ErrorKind> for Code (err.kind().into())
CodeFromErrorKind(kind) ==
    IF kind = "NotFound" THEN CodeFileNotFound
    ELSE IF kind = "PermissionDenied" THEN CodeAccessViolation
    ELSE IF kind = "AlreadyExists" THEN CodeFileAlreadyExists
    ELSE CodeNotDefined

\* every stream error reported under the code NotDefined
PacketOfStreamErrorNotDefined(err) == PacketError(CodeNotDefined, err.message)

\* Packet::error(err.kind().into(), format!("{}", err))
PacketOfStreamError(err) ==
    PacketError(CodeFromErrorKind(err.kind), err.message)

\* what UdpSocket::send returns on a socket whose peer is unreachable
SendError == IoError("ConnectionRefused", <<>>)

\* the outcome `out` of a step once its datagrams went to a socket on which
\* send fails or not: the error of a send followed by `?` is returned in
\* place of what the step was about to do (out.must), the error of a send
\* bound to `let _` is dropped
Sending(fails, out) ==
    IF ~fails \/ out.sent = <<>> THEN out
    ELSE IF out.must
    THEN [out EXCEPT !.pc = "failed", !.result = Fail(SendError), !.sent = <<>>]
    ELSE [out EXCEPT !.sent = <<>>]

\* what reader.read(&mut buf) may return with `remaining` bytes left
ReadOutcomes(remaining) ==
    {Ok(ReadLen(remaining))} \cup
        (IF stream_faults THEN {Fail(e) : e \in StreamErrors} ELSE {})

\* put returning the read error without telling the peer
PutReadDoneSilent(r) ==
    IF IsOk(r)
    THEN LET buf == SubSeq(source, reader_pos + 1, reader_pos + r.val)
             bytes == PacketIntoBytes(PacketData(current_block, buf))
         IN  [pc |-> "recv", result |-> put_result, sent |-> <<bytes>>,
              must |-> TRUE, n |-> r.val, bytes |-> bytes]
    ELSE [pc |-> "failed", result |-> r, sent |-> <<>>,
          must |-> FALSE, n |-> bytes_read, bytes |-> data_bytes]

\* put, head of the outer loop after reader.read returned r: bail with an
\* Error packet, or create the Data packet and send it
PutReadDone(r) ==
    IF IsOk(r)
    THEN LET buf == SubSeq(source, reader_pos + 1, reader_pos + r.val)
             bytes == PacketIntoBytes(PacketData(current_block, buf))
         IN  [pc |-> "recv", result |-> put_result, sent |-> <<bytes>>,
              must |-> TRUE, n |-> r.val, bytes |-> bytes]
    ELSE [pc |-> "failed", result |-> r,
          sent |-> <<PacketIntoBytes(PacketOfStreamError(r.error))>>,
          must |-> FALSE, n |-> bytes_read, bytes |-> data_bytes]

\* put, head of the outer loop: read a block from the reader, create the
\* Data packet for it and send it
PutRead ==
    /\ put_pc = "read"
    /\ \E r \in ReadOutcomes(Len(source) - reader_pos) :
         \E out \in {Sending(put_send_fails, PutReadDone(r))} :
           /\ bytes_read' = out.n
           /\ reader_pos' = reader_pos + (IF IsOk(r) THEN r.val ELSE 0)
           /\ data_bytes' = out.bytes
           /\ put_pc' = out.pc
           /\ put_result' = out.result
           /\ to_get' = Send(get_pc, to_get, out.sent)
           /\ put_sent' = put_sent \o out.sent
           /\ to_put' = Inbound(out.pc, to_put)
    /\ UNCHANGED <<server_vars, client_vars, codec_vars>>
    /\ UNCHANGED <<config, current_block, put_retrans, put_rcvd, get_vars,
                   timeouts, dups>>

\* current_block += 2: put skips a block number
NextBlockSkips(block, overflow_checks) == Ok((block + 2) % U16)

\* current_block += 1 on a u16: past 65535 a build with overflow checks
\* panics and a build without them wraps to 0
NextBlock(block, overflow_checks) ==
    IF block + 1 < U16 THEN Ok(block + 1)
    ELSE IF overflow_checks THEN Panic
    ELSE Ok((block + 1) % U16)

\* put with no end: no read counts as the last one
IsLastReadNever(n) == FALSE

\* put with `<=` for `<`: a full block counts as the last one
IsLastReadLe(n) == n <= MAX_PAYLOAD_SIZE

\* put: bytes_read < MAX_PAYLOAD_SIZE, the block sent was the last one
IsLastRead(n) == n < MAX_PAYLOAD_SIZE

\* put taking the Ack of any block for the Ack of the current one
PutAckedAnyBlock(ack, overflow_checks) ==
    LET next == NextBlock(current_block, overflow_checks) IN
    IF ~IsOk(next)
    THEN [pc |-> "panicked", block |-> current_block, result |-> Panic,
          sent |-> <<>>, must |-> FALSE]
    ELSE IF IsLastRead(bytes_read)
    THEN [pc |-> "done", block |-> next.val, result |-> Returned,
          sent |-> <<>>, must |-> FALSE]
    ELSE [pc |-> "read", block |-> next.val, result |-> Running,
          sent |-> <<>>, must |-> FALSE]

\* put sending the Error for a mismatching Ack and awaiting the next
\* datagram all the same
PutAckedGoesOn(ack, overflow_checks) ==
    IF current_block # ack.body.block
    THEN LET error == PacketError(CodeIllegalOperation,
                          MsgUnexpectedAck(current_block, ack.body.block))
         IN  [pc |-> "recv", block |-> current_block, result |-> put_result,
              sent |-> <<PacketIntoBytes(error)>>, must |-> TRUE]
    ELSE PutAckedAnyBlock(ack, overflow_checks)

\* put leaving current_block as it is when the Ack matches
PutAckedKeepsBlock(ack, overflow_checks) ==
    IF current_block # ack.body.block
    THEN LET error == PacketError(CodeIllegalOperation,
                          MsgUnexpectedAck(current_block, ack.body.block))
         IN  [pc |-> "failed", block |-> current_block,
              result |-> Fail(IoErrorFromPacket(error)),
              sent |-> <<PacketIntoBytes(error)>>, must |-> TRUE]
    ELSE IF IsLastRead(bytes_read)
    THEN [pc |-> "done", block |-> current_block, result |-> Returned,
          sent |-> <<>>, must |-> FALSE]
    ELSE [pc |-> "read", block |-> current_block, result |-> Running,
          sent |-> <<>>, must |-> FALSE]

\* put: what follows a datagram that decoded as an Ack
PutAcked(ack, overflow_checks) ==
    IF current_block # ack.body.block
    THEN LET error == PacketError(CodeIllegalOperation,
                          MsgUnexpectedAck(current_block, ack.body.block))
         IN  [pc |-> "failed", block |-> current_block,
              result |-> Fail(IoErrorFromPacket(error)),
              sent |-> <<PacketIntoBytes(error)>>, must |-> TRUE]
    ELSE LET next == NextBlock(current_block, overflow_checks) IN
         IF ~IsOk(next)
         THEN [pc |-> "panicked", block |-> current_block, result |-> Panic,
               sent |-> <<>>, must |-> FALSE]
         ELSE IF IsLastRead(bytes_read)
         THEN [pc |-> "done", block |-> next.val, result |-> Returned,
               sent |-> <<>>, must |-> FALSE]
         ELSE [pc |-> "read", block |-> next.val, result |-> Running,
               sent |-> <<>>, must |-> FALSE]

\* put: recv returned a datagram; expect an Ack for the current block
PutRecv ==
    /\ put_pc = "recv"
    /\ to_put # <<>>
    /\ \E overflow_checks \in
              IF current_block + 1 < U16 THEN {TRUE} ELSE BOOLEAN :
         \E buf \in {Take(Head(to_put), MAX_PACKET_SIZE)} :
         \E e \in {ExpectPacket(OpAck, buf)} :
         \E out \in {Sending(put_send_fails,
                    IF IsOk(e.result) THEN PutAcked(e.result.val, overflow_checks)
                    ELSE [pc |-> IF e.result = Panic THEN "panicked" ELSE "failed",
                          block |-> current_block, result |-> e.result,
                          sent |-> e.sent, must |-> FALSE])} :
             /\ put_rcvd' = Append(put_rcvd, buf)
             /\ put_pc' = out.pc
             /\ current_block' = out.block
             /\ put_result' = out.result
             /\ to_get' = Send(get_pc, to_get, out.sent)
             /\ put_sent' = put_sent \o out.sent
             /\ to_put' = Inbound(out.pc, Tail(to_put))
    /\ UNCHANGED <<server_vars, client_vars, codec_vars>>
    /\ UNCHANGED <<config, put_retrans, reader_pos, bytes_read, data_bytes,
                   get_vars, timeouts, dups>>

\* put leaving the inner loop on a permitted retransmission: it reads the
\* reader again instead of sending the latest Data packet
PutRecvErrorRereads(error) ==
    LET c == CheckRetransmission(max_retransmissions, error, put_retrans) IN
    IF c.result = Returned
    THEN [pc |-> "read", retrans |-> c.retrans, result |-> put_result,
          sent |-> <<>>, must |-> FALSE]
    ELSE [pc |-> "failed", retrans |-> c.retrans, result |-> c.result,
          sent |-> c.sent, must |-> FALSE]

\* put counting its retransmissions from zero at every timeout
PutRecvErrorCountsFromZero(error) ==
    LET c == CheckRetransmission(max_retransmissions, error, 0) IN
    IF c.result = Returned
    THEN [pc |-> "recv", retrans |-> c.retrans, result |-> put_result,
          sent |-> <<data_bytes>>, must |-> TRUE]
    ELSE [pc |-> "failed", retrans |-> c.retrans, result |-> c.result,
          sent |-> c.sent, must |-> FALSE]

\* put taking an expired deadline for nothing: it awaits the Ack again,
\* counts nothing and sends nothing
PutRecvErrorWaitsOn(error) ==
    [pc |-> "recv", retrans |-> put_retrans, result |-> put_result,
     sent |-> <<>>, must |-> FALSE]

\* put: what the Err(error) arm of recv does: bail, or run through the inner
\* loop again, which sends the latest Data packet once more
PutRecvError(error) ==
    LET c == CheckRetransmission(max_retransmissions, error, put_retrans) IN
    IF c.result = Returned
    THEN [pc |-> "recv", retrans |-> c.retrans, result |-> put_result,
          sent |-> <<data_bytes>>, must |-> TRUE]
    ELSE [pc |-> "failed", retrans |-> c.retrans, result |-> c.result,
          sent |-> c.sent, must |-> FALSE]

\* put: recv returned the error of an expired read deadline
PutRecvTimesOut ==
    /\ put_pc = "recv"
    /\ read_timeout
    /\ \E out \in {Sending(put_send_fails, PutRecvError(TimeoutError))} :
         /\ put_pc' = out.pc
         /\ put_retrans' = out.retrans
         /\ put_result' = out.result
         /\ to_get' = Send(get_pc, to_get, out.sent)
         /\ put_sent' = put_sent \o out.sent
         /\ to_put' = Inbound(out.pc, to_put)
    /\ UNCHANGED <<server_vars, client_vars, codec_vars>>
    /\ UNCHANGED <<config, current_block, reader_pos, bytes_read, data_bytes,
                   put_rcvd, get_vars, dups>>

\* put: recv ran into the read deadline, one of the MaxTimeouts deadlines
\* that expire in a transfer
PutTimeout ==
    /\ timeouts < MaxTimeouts
    /\ PutRecvTimesOut
    /\ timeouts' = timeouts + 1

\* put: recv ran into the read deadline; the deadlines that expire are not
\* counted, the cap on retransmissions bounds them
PutDeadline ==
    /\ max_retransmissions # None
    /\ PutRecvTimesOut
    /\ timeouts' = timeouts

(***************************************************************************)
(* Connection::get.  A step runs from one blocking call to the next; the   *)
(* write to the writer and the send of the Ack are separate steps.         *)
(***************************************************************************)
\* what writer.write_all(payload) may return: write_all of no bytes never
\* calls the writer
WriteOutcomes(payload) ==
    {Returned} \cup
        (IF stream_faults /\ payload # <<>>
         THEN {Fail(e) : e \in StreamErrors} ELSE {})

\* get taking a Data packet only when its block is the one after the last
\* block acknowledged, and awaiting again otherwise
GetReceivedInOrder(e, w) ==
    IF ~IsOk(e.result)
    THEN [pc |-> IF e.result = Panic THEN "panicked" ELSE "failed",
          result |-> e.result, sent |-> e.sent, must |-> FALSE]
    ELSE IF e.result.val.body.block #
                (IF last_block = None THEN 1 ELSE Unwrap(last_block) + 1)
    THEN [pc |-> "recv", result |-> get_result, sent |-> <<>>, must |-> FALSE]
    ELSE IF w = Returned
    THEN [pc |-> "ack", result |-> get_result, sent |-> <<>>, must |-> FALSE]
    ELSE [pc |-> "failed", result |-> w,
          sent |-> <<PacketIntoBytes(PacketOfStreamError(w.error))>>,
          must |-> FALSE]

\* get: what follows a datagram on which expect_packet returned e and, when
\* that is a Data packet, write_all returned w
GetReceived(e, w) ==
    IF ~IsOk(e.result)
    THEN [pc |-> IF e.result = Panic THEN "panicked" ELSE "failed",
          result |-> e.result, sent |-> e.sent, must |-> FALSE]
    ELSE IF w = Returned
    THEN [pc |-> "ack", result |-> get_result, sent |-> <<>>, must |-> FALSE]
    ELSE [pc |-> "failed", result |-> w,
          sent |-> <<PacketIntoBytes(PacketOfStreamError(w.error))>>,
          must |-> FALSE]

\* get: recv returned a datagram; parse it as a Data packet or bail, and
\* write the received data to the writer (a writer that fails takes none
\* of it)
GetRecv ==
    /\ get_pc = "recv"
    /\ to_get # <<>>
    /\ \E buf \in {Take(Head(to_get), MAX_PACKET_SIZE)} :
       \E e \in {ExpectPacket(OpData, buf)} :
       \E body \in {IF IsOk(e.result) THEN e.result.val.body
                     ELSE [block |-> 0, data |-> buf]} :
           \E w \in WriteOutcomes(body.data) :
             \E out \in {Sending(get_send_fails, GetReceived(e, w))} :
               /\ IF out.pc = "ack"
                  THEN /\ data' = body
                       /\ writer' = writer \o body.data
                       /\ written' = Append(written, body.block)
                  ELSE UNCHANGED <<data, writer, written>>
               /\ get_pc' = out.pc
               /\ get_result' = out.result
               /\ to_put' = Send(put_pc, to_put, out.sent)
               /\ get_sent' = get_sent \o out.sent
               /\ to_get' = Inbound(out.pc, Tail(to_get))
    /\ get_nrecv' = get_nrecv + 1
    /\ UNCHANGED <<server_vars, client_vars, codec_vars>>
    /\ UNCHANGED <<config, put_vars, last_block, get_retrans, timeouts, dups>>

\* get with `<=` for `<`: a full block counts as the last one
IsLastDataLe(payload) == Len(payload) <= MAX_PAYLOAD_SIZE

\* get: data.body.data.len() < MAX_PAYLOAD_SIZE, this is the last block
IsLastData(payload) == Len(payload) < MAX_PAYLOAD_SIZE

\* get going on with its count of retransmissions after an Ack
GetAckSentKeepsCount(failed) ==
    [last_block |-> IF failed THEN last_block ELSE Some(data.block),
     retrans |-> get_retrans]

\* get, after the send of the acknowledgement: unless the send failed, the
\* block is the last one acknowledged and the count of retransmissions
\* starts again
GetAckSent(failed) ==
    [last_block |-> IF failed THEN last_block ELSE Some(data.block),
     retrans |-> IF failed THEN get_retrans ELSE 0]

\* get dallying: after the Ack of the last block it awaits a datagram again
GetAckStepDallies(last) ==
    [pc |-> "recv", result |-> get_result,
     sent |-> <<PacketIntoBytes(PacketAck(data.block))>>, must |-> TRUE]

\* get: the Ack of the block written is sent, and after the Ack of the last
\* block get leaves the loop and returns Ok(())
GetAckStep(last) ==
    [pc |-> IF last THEN "done" ELSE "recv",
     result |-> IF last THEN Returned ELSE get_result,
     sent |-> <<PacketIntoBytes(PacketAck(data.block))>>, must |-> TRUE]

\* get: send the acknowledgement of the block written, and return after
\* the last block
GetAck ==
    /\ get_pc = "ack"
    /\ \E last \in {IsLastData(data.data)} :
       \E out \in {Sending(get_send_fails, GetAckStep(last))} :
           /\ to_put' = Send(put_pc, to_put, out.sent)
           /\ get_sent' = get_sent \o out.sent
           /\ last_block' = GetAckSent(out.pc = "failed").last_block
           /\ get_retrans' = GetAckSent(out.pc = "failed").retrans
           /\ get_pc' = out.pc
           /\ get_result' = out.result
           /\ to_get' = Inbound(out.pc, to_get)
    /\ UNCHANGED <<server_vars, client_vars, codec_vars>>
    /\ UNCHANGED <<config, put_vars, data, writer, get_nrecv, written,
                   timeouts, dups>>

\* get acknowledging the block after last_block on a permitted retransmission
GetRecvErrorNextBlock(error) ==
    IF last_block = None
    THEN [pc |-> "failed", retrans |-> get_retrans, result |-> Fail(error),
          sent |-> <<>>, must |-> FALSE]
    ELSE LET c == CheckRetransmission(max_retransmissions, error, get_retrans)
         IN  IF c.result = Returned
             THEN [pc |-> "recv", retrans |-> c.retrans, result |-> get_result,
                   sent |-> <<PacketIntoBytes(
                                PacketAck((Unwrap(last_block) + 1) % U16))>>,
                   must |-> TRUE]
             ELSE [pc |-> "failed", retrans |-> c.retrans, result |-> c.result,
                   sent |-> c.sent, must |-> FALSE]

\* get awaiting again on a permitted retransmission without sending the Ack
GetRecvErrorSilent(error) ==
    IF last_block = None
    THEN [pc |-> "failed", retrans |-> get_retrans, result |-> Fail(error),
          sent |-> <<>>, must |-> FALSE]
    ELSE LET c == CheckRetransmission(max_retransmissions, error, get_retrans)
         IN  IF c.result = Returned
             THEN [pc |-> "recv", retrans |-> c.retrans, result |-> get_result,
                   sent |-> <<>>, must |-> FALSE]
             ELSE [pc |-> "failed", retrans |-> c.retrans, result |-> c.result,
                   sent |-> c.sent, must |-> FALSE]

\* get counting the timeout of its first await as a retransmission
GetRecvErrorCountsFirst(error) ==
    LET c == CheckRetransmission(max_retransmissions, error, get_retrans) IN
    IF c.result = Returned
    THEN [pc |-> "recv", retrans |-> c.retrans, result |-> get_result,
          sent |-> IF last_block = None THEN <<>>
                   ELSE <<PacketIntoBytes(PacketAck(Unwrap(last_block)))>>,
          must |-> TRUE]
    ELSE [pc |-> "failed", retrans |-> c.retrans, result |-> c.result,
          sent |-> c.sent, must |-> FALSE]

\* get: what the Err(error) arm of recv does: bail, or send the Ack of
\* last_block again
GetRecvError(error) ==
    IF last_block = None
    THEN [pc |-> "failed", retrans |-> get_retrans, result |-> Fail(error),
          sent |-> <<>>, must |-> FALSE]
    ELSE LET c == CheckRetransmission(max_retransmissions, error, get_retrans)
         IN  IF c.result = Returned
             THEN [pc |-> "recv", retrans |-> c.retrans, result |-> get_result,
                   sent |-> <<PacketIntoBytes(PacketAck(Unwrap(last_block)))>>,
                   must |-> TRUE]
             ELSE [pc |-> "failed", retrans |-> c.retrans, result |-> c.result,
                   sent |-> c.sent, must |-> FALSE]

\* get: recv returned the error of an expired read deadline
GetRecvTimesOut ==
    /\ get_pc = "recv"
    /\ read_timeout
    /\ \E out \in {Sending(get_send_fails, GetRecvError(TimeoutError))} :
         /\ get_pc' = out.pc
         /\ get_retrans' = out.retrans
         /\ get_result' = out.result
         /\ to_put' = Send(put_pc, to_put, out.sent)
         /\ get_sent' = get_sent \o out.sent
         /\ to_get' = Inbound(out.pc, to_get)
    /\ UNCHANGED <<server_vars, client_vars, codec_vars>>
    /\ UNCHANGED <<config, put_vars, last_block, data, writer, get_nrecv,
                   written, dups>>

\* get: recv ran into the read deadline, one of the MaxTimeouts deadlines
\* that expire in a transfer
GetTimeout ==
    /\ timeouts < MaxTimeouts
    /\ GetRecvTimesOut
    /\ timeouts' = timeouts + 1

\* get: recv ran into the read deadline; the deadlines that expire are not
\* counted, the cap on retransmissions bounds them
GetDeadline ==
    /\ max_retransmissions # None
    /\ GetRecvTimesOut
    /\ timeouts' = timeouts

(***************************************************************************)
(* The network between the two sockets: UDP may lose and may duplicate.    *)
(***************************************************************************)
\* a datagram on its way to get is lost
LoseToGet ==
    /\ \E i \in 1..Len(to_get) : to_get' = RemoveAt(to_get, i)
    /\ UNCHANGED <<server_vars, client_vars, codec_vars>>
    /\ UNCHANGED <<config, put_vars, get_vars, to_put, timeouts, dups>>

\* a datagram on its way to put is lost
LoseToPut ==
    /\ \E i \in 1..Len(to_put) : to_put' = RemoveAt(to_put, i)
    /\ UNCHANGED <<server_vars, client_vars, codec_vars>>
    /\ UNCHANGED <<config, put_vars, get_vars, to_get, timeouts, dups>>

\* chan with its i-th datagram delivered twice in a row
Duplicate(chan, i) ==
    SubSeq(chan, 1, i) \o <<chan[i]>> \o SubSeq(chan, i + 1, Len(chan))

\* a datagram on its way to get is duplicated
DupToGet ==
    /\ dups < MaxDups
    /\ \E i \in 1..Len(to_get) : to_get' = Duplicate(to_get, i)
    /\ dups' = dups + 1
    /\ UNCHANGED <<server_vars, client_vars, codec_vars>>
    /\ UNCHANGED <<config, put_vars, get_vars, to_put, timeouts>>

\* a datagram on its way to put is duplicated
DupToPut ==
    /\ dups < MaxDups
    /\ \E i \in 1..Len(to_put) : to_put' = Duplicate(to_put, i)
    /\ dups' = dups + 1
    /\ UNCHANGED <<server_vars, client_vars, codec_vars>>
    /\ UNCHANGED <<config, put_vars, get_vars, to_get, timeouts>>

(***************************************************************************)
(* A peer that is not this engine: whatever is connected to the socket may *)
(* send any bytes, as the server socket of the engine's tests does.        *)
(***************************************************************************)
\* datagrams of every shape the decoders tell apart: too short for a
\* header, an unknown opcode, a request, Acks of several blocks and a
\* truncated one, a Data packet, Error packets, and Error packets with an
\* unknown code or without the closing NUL
ForeignDatagrams ==
    { <<>>,
      <<0>>,
      <<0, 9>>,
      <<116, 104, 105, 115>>,
      <<0, OpRrq, 97, 0, 111, 99, 116, 101, 116, 0>>,
      <<0, OpAck, 0, 0>>,
      <<0, OpAck, 0, 1>>,
      <<0, OpAck, 0, 2>>,
      <<0, OpAck, 0>>,
      <<0, OpData, 0, 1, 7>>,
      <<0, OpData, 0, 9, 7>>,
      <<0, OpError, 0, CodeNotDefined, 66, 0>>,
      <<0, OpError, 0, CodeFileNotFound, 65, 0>>,
      <<0, OpError, 0, CodeAccessViolation, 0>>,
      <<0, OpError, 0, 9, 0>>,
      <<0, OpError, 0, CodeFileNotFound, 65>> }

\* the peer of get sends something that put did not send
InjectToGet ==
    /\ injected < MaxInject
    /\ ~Ended(get_pc)
    /\ \E d \in ForeignDatagrams : to_get' = Append(to_get, d)
    /\ injected' = injected + 1
    /\ UNCHANGED <<server_vars, client_vars, codec_vars>>
    /\ UNCHANGED <<source, max_retransmissions, read_timeout, stream_faults,
                   reader_chunk,
                   put_send_fails, get_send_fails, put_vars, get_vars, to_put,
                   timeouts, dups>>

\* the peer of put sends something that get did not send
InjectToPut ==
    /\ injected < MaxInject
    /\ ~Ended(put_pc)
    /\ \E d \in ForeignDatagrams : to_put' = Append(to_put, d)
    /\ injected' = injected + 1
    /\ UNCHANGED <<server_vars, client_vars, codec_vars>>
    /\ UNCHANGED <<source, max_retransmissions, read_timeout, stream_faults,
                   reader_chunk,
                   put_send_fails, get_send_fails, put_vars, get_vars, to_get,
                   timeouts, dups>>

\* from now on send on put's socket fails (its peer has become unreachable)
PutSocketBreaks ==
    /\ ~put_send_fails
    /\ ~Ended(put_pc)
    /\ put_send_fails' = TRUE
    /\ UNCHANGED <<server_vars, client_vars, codec_vars>>
    /\ UNCHANGED <<source, max_retransmissions, read_timeout, stream_faults,
                   reader_chunk,
                   get_send_fails, injected, put_vars, get_vars, to_get,
                   to_put, timeouts, dups>>

\* from now on send on get's socket fails (its peer has become unreachable)
GetSocketBreaks ==
    /\ ~get_send_fails
    /\ ~Ended(get_pc)
    /\ get_send_fails' = TRUE
    /\ UNCHANGED <<server_vars, client_vars, codec_vars>>
    /\ UNCHANGED <<source, max_retransmissions, read_timeout, stream_faults,
                   reader_chunk,
                   put_send_fails, injected, put_vars, get_vars, to_get,
                   to_put, timeouts, dups>>

Next ==
    \/ PutRead
    \/ PutRecv
    \/ PutTimeout
    \/ GetRecv
    \/ GetAck
    \/ GetTimeout
    \/ LoseToGet
    \/ LoseToPut

\* a transfer over a network that may lose datagrams, with read timeouts
\* set on both sockets
Spec == Init /\ [][Next]_vars

NextDup ==
    \/ PutRead
    \/ PutRecv
    \/ PutTimeout
    \/ GetRecv
    \/ GetAck
    \/ GetTimeout
    \/ LoseToGet
    \/ LoseToPut
    \/ DupToGet
    \/ DupToPut

\* a transfer over a network that may lose and may duplicate datagrams,
\* with read timeouts set on both sockets
SpecDup == Init /\ [][NextDup]_vars

\* a reader of full blocks only, a cap of one retransmission or more, and
\* read timeouts on both sockets
InitCounters ==
    /\ InitEngines
    /\ source = SourceOf((MaxBlocks + 1) * MAX_PAYLOAD_SIZE)
    /\ max_retransmissions \in {Some(n) : n \in 1..MaxRetrans}
    /\ read_timeout = TRUE
    /\ stream_faults = FALSE

\* a transfer of several full blocks under a cap on retransmissions, over a
\* network that may lose datagrams
SpecCounters == InitCounters /\ [][Next]_vars

\* what a reader that hands out less than it is asked for yields at most
\* in one read: one byte, or a block less one byte
ShortChunks == {1, MAX_PAYLOAD_SIZE - 1}

\* the reader of put yields its bytes a few at a time, as Read::read may
InitShortReads ==
    /\ InitAt("read")
    /\ fn_input = None
    /\ fn_output = None
    /\ reader_chunk \in ShortChunks
    /\ source \in Sources
    /\ read_timeout = TRUE
    /\ stream_faults = FALSE

\* a transfer from a reader with short reads, over a network that may lose
\* datagrams
SpecShortReads == InitShortReads /\ [][Next]_vars

\* no read timeout is set: recv blocks until a datagram arrives
InitReliable ==
    /\ InitEngines
    /\ source \in LongSources
    /\ read_timeout = FALSE
    /\ stream_faults = FALSE

NextReliable ==
    \/ PutRead
    \/ PutRecv
    \/ GetRecv
    \/ GetAck

\* a transfer over a network that neither loses, duplicates nor reorders
\* datagrams
SpecReliable == InitReliable /\ [][NextReliable]_vars

\* each operation runs on a thread of its own, and a blocking recv returns
\* once a datagram has arrived
SpecReliableFair ==
    /\ SpecReliable
    /\ WF_vars(PutRead \/ PutRecv)
    /\ WF_vars(GetRecv \/ GetAck)

\* a reader of one byte and a reader of exactly one block
ShortSources == {SourceOf(1), SourceOf(MAX_PAYLOAD_SIZE)}

\* both sockets have a read timeout set and the cap on retransmissions is
\* Some(0); reader and writer may fail
InitPeer ==
    /\ InitEngines
    /\ source \in ShortSources
    /\ max_retransmissions = Some(0)
    /\ read_timeout = TRUE
    /\ stream_faults = TRUE

NextPeer ==
    \/ PutRead
    \/ PutRecv
    \/ PutTimeout
    \/ GetRecv
    \/ GetAck
    \/ GetTimeout
    \/ InjectToGet
    \/ InjectToPut

\* a transfer in which each engine may also receive datagrams of any shape,
\* with read timeouts set on both sockets
SpecPeer == InitPeer /\ [][NextPeer]_vars

\* reader and writer may fail; no read timeout is set, so the cap on
\* retransmissions plays no part
InitStream ==
    /\ InitEngines
    /\ source \in LongSources
    /\ max_retransmissions = None
    /\ read_timeout = FALSE
    /\ stream_faults = TRUE

\* a transfer with a reader and a writer that may fail, over a network that
\* neither loses, duplicates nor reorders datagrams
SpecStream == InitStream /\ [][NextReliable]_vars

\* each operation runs on a thread of its own, and a blocking recv returns
\* once a datagram has arrived
SpecStreamFair ==
    /\ SpecStream
    /\ WF_vars(PutRead \/ PutRecv)
    /\ WF_vars(GetRecv \/ GetAck)

\* a reader that ends in its first or in its second block; both sockets have
\* a read timeout set and max_retransmissions is Some(n)
InitDeadlines ==
    /\ InitEngines
    /\ source \in ShortSources
    /\ max_retransmissions \in {Some(n) : n \in 0..MaxRetrans}
    /\ read_timeout = TRUE
    /\ stream_faults = FALSE

NextDeadlines ==
    \/ PutRead
    \/ PutRecv
    \/ PutDeadline
    \/ GetRecv
    \/ GetAck
    \/ GetDeadline
    \/ LoseToGet
    \/ LoseToPut

\* a transfer under a cap on retransmissions over a network that may lose
\* datagrams, with as many read deadlines expiring as the cap lets through
SpecDeadlines == InitDeadlines /\ [][NextDeadlines]_vars

\* put runs on a thread of its own: a read returns, and a recv returns
\* with a datagram or, at the latest, when the read deadline expires
SpecDeadlinesFair ==
    /\ SpecDeadlines
    /\ WF_vars(PutRead \/ PutRecv \/ PutDeadline)

\* a reader of a full block and a byte more; both sockets have a read
\* timeout set and max_retransmissions is Some(n)
InitAnyPeer ==
    /\ InitEngines
    /\ source = SourceOf(MAX_PAYLOAD_SIZE + 1)
    /\ max_retransmissions \in {Some(n) : n \in 0..MaxRetrans}
    /\ read_timeout = TRUE
    /\ stream_faults = FALSE

\* whatever is connected to put's socket sends it a datagram of any shape,
\* at any time; the socket holds one datagram until put receives it
PeerSends ==
    /\ ~Ended(put_pc)
    /\ to_put = <<>>
    /\ \E d \in ForeignDatagrams : to_put' = <<d>>
    /\ UNCHANGED <<server_vars, client_vars, codec_vars>>
    /\ UNCHANGED <<config, put_vars, get_vars, to_get, timeouts, dups>>

NextAnyPeer ==
    \/ PutRead
    \/ PutRecv
    \/ PutDeadline
    \/ PeerSends
    \/ LoseToPut

\* put under a cap on retransmissions against a peer that sends it what it
\* likes when it likes, over a network that may lose datagrams
SpecAnyPeer == InitAnyPeer /\ [][NextAnyPeer]_vars

\* put runs on a thread of its own; nothing is assumed of its peer or of
\* the network
SpecAnyPeerFair ==
    /\ SpecAnyPeer
    /\ WF_vars(PutRead \/ PutRecv \/ PutDeadline)

NextFaults ==
    \/ PutRead
    \/ PutRecv
    \/ PutTimeout
    \/ GetRecv
    \/ GetAck
    \/ GetTimeout
    \/ InjectToGet
    \/ InjectToPut
    \/ PutSocketBreaks
    \/ GetSocketBreaks

\* a transfer in which everything around the engines may go wrong: the
\* peer sends anything, reader and writer fail, send fails
SpecFaults == InitPeer /\ [][NextFaults]_vars

(***************************************************************************)
(* server.rs: Server::serve and Handler::handle.  serve runs on the        *)
(* thread that loops on it; every Handler may run on a thread of its own.  *)
(***************************************************************************)
\* the addresses requests come from
Clients == {"c1", "c2"}

\* RRQ "f" octet, WRQ "f" octet, WRQ "g" netascii, a datagram with the
\* opcode 9, and a datagram of one byte
RequestDatagrams ==
    { <<0, OpRrq, 102, 0, 111, 99, 116, 101, 116, 0>>,
      <<0, OpWrq, 102, 0, 111, 99, 116, 101, 116, 0>>,
      <<0, OpWrq, 103, 0, 78, 101, 116, 65, 115, 99, 105, 105, 0>>,
      <<0, 9>>,
      <<0>> }

\* a client sends a datagram to the server's socket
ClientSends ==
    /\ requests_sent < MaxRequests
    /\ \E src_addr \in Clients, d \in RequestDatagrams :
         requests' = Append(requests, [src_addr |-> src_addr, bytes |-> d])
    /\ requests_sent' = requests_sent + 1
    /\ UNCHANGED <<active_clients_pool, handlers, serve_results, serve_dir,
                   wire, client_vars, codec_vars>>
    /\ UNCHANGED <<config, put_vars, get_vars, to_get, to_put, timeouts, dups>>

\* "Client TID taken."
MsgTidTaken ==
    <<67, 108, 105, 101, 110, 116, 32, 84, 73, 68, 32, 116, 97, 107, 101, 110,
    46>>

\* the insert returned true whatever the set held
InsertAlwaysNew(pool, src_addr) ==
    [inserted |-> TRUE, pool |-> pool \cup {src_addr}]

\* HashSet::insert: whether the value was newly inserted, and the set after
Insert(pool, src_addr) ==
    [inserted |-> src_addr \notin pool, pool |-> pool \cup {src_addr}]

\* UdpSocket::send on a socket connected to peer (None: never connected):
\* what it returns and what goes out
UdpSend(peer, bytes) ==
    IF peer = None
    THEN [result |-> Fail(IoError("NotConnected", <<>>)), out |-> <<>>]
    ELSE [result |-> Returned,
          out |-> <<[dst |-> Unwrap(peer), bytes |-> bytes]>>]

\* Handler::new: the socket bound and connected, or the error of bind
HandlerNew(bound, client, direction) ==
    IF bound
    THEN Ok([client |-> client, direction |-> direction.tag,
             filename |-> direction.rq.filename, state |-> "new",
             result |-> Running])
    ELSE Fail(IoError("AddrInUse", <<>>))

\* Server::serve on the datagram `bytes` from src_addr, with `bound` telling
\* whether the port drawn for the Handler is free: the set afterwards, what
\* serve returns, and what its send on the listening socket, which is bound
\* and never connected, puts out
ServeDatagram(src_addr, bytes, bound) ==
    LET ins == Insert(active_clients_pool, src_addr) IN
    IF ~ins.inserted
    THEN [pool |-> ins.pool,
          result |-> Fail(IoError("AddrNotAvailable", MsgTidTaken)),
          out |-> <<>>]
    ELSE LET rrq == PacketFromBytes(OpRrq, bytes)
             wrq == PacketFromBytes(OpWrq, bytes)
         IN  IF rrq = Panic
             THEN [pool |-> ins.pool, result |-> Panic, out |-> <<>>]
             ELSE IF IsOk(rrq)
             THEN [pool |-> ins.pool,
                   result |-> HandlerNew(bound, src_addr,
                                  [tag |-> "Get", rq |-> rrq.val.body]),
                   out |-> <<>>]
             ELSE IF IsOk(wrq)
             THEN [pool |-> ins.pool,
                   result |-> HandlerNew(bound, src_addr,
                                  [tag |-> "Put", rq |-> wrq.val.body]),
                   out |-> <<>>]
             ELSE LET error == PacketError(CodeIllegalOperation,
                                           MsgIllegalOperation)
                  IN  [pool |-> ins.pool,
                       result |-> Fail(IoError("InvalidInput", <<>>)),
                       out |-> UdpSend(None, PacketIntoBytes(error)).out]

\* Server::serve: take the next datagram off the socket, admit its sender,
\* parse the request and make the Handler for it
Serve ==
    /\ requests # <<>>
    /\ \E bound \in BOOLEAN :
       \E out \in {ServeDatagram(Head(requests).src_addr,
                       Take(Head(requests).bytes, MAX_PACKET_SIZE), bound)} :
         /\ active_clients_pool' = out.pool
         /\ handlers' = IF IsOk(out.result)
                        THEN Append(handlers, out.result.val)
                        ELSE handlers
         /\ serve_results' =
                Append(serve_results,
                       [client |-> Head(requests).src_addr,
                        result |-> IF IsOk(out.result)
                                   THEN Ok(Len(handlers) + 1)
                                   ELSE out.result])
         /\ wire' = wire \o out.out
    /\ requests' = Tail(requests)
    /\ UNCHANGED <<requests_sent, serve_dir, client_vars, codec_vars>>
    /\ UNCHANGED <<config, put_vars, get_vars, to_get, to_put, timeouts, dups>>

\* "File not found"
MsgFileNotFound ==
    <<70, 105, 108, 101, 32, 110, 111, 116, 32, 102, 111, 117, 110, 100>>

\* "File already exists"
MsgFileAlreadyExists ==
    <<70, 105, 108, 101, 32, 97, 108, 114, 101, 97, 100, 121, 32, 101, 120,
    105, 115, 116, 115>>

\* "Not defined, see error message (if any)"
MsgNotDefined ==
    <<78, 111, 116, 32, 100, 101, 102, 105, 110, 101, 100, 44, 32, 115, 101,
    101, 32, 101, 114, 114, 111, 114, 32, 109, 101, 115, 115, 97, 103, 101,
    32, 40, 105, 102, 32, 97, 110, 121, 41>>

\* From<io::Error> for Packet<Error>: the code that goes with the kind, and
\* the code's text as the message
PacketFromIoError(kind) ==
    IF kind = "NotFound" THEN PacketError(CodeFileNotFound, MsgFileNotFound)
    ELSE IF kind = "AlreadyExists"
    THEN PacketError(CodeFileAlreadyExists, MsgFileAlreadyExists)
    ELSE PacketError(CodeNotDefined, MsgNotDefined)

\* handle leaving the client in the set when the transfer failed
HandleReturnsKeepsFailed(h, result) ==
    [handler |-> [h EXCEPT !.state = "returned", !.result = result],
     pool |-> IF result = Returned THEN active_clients_pool \ {h.client}
              ELSE active_clients_pool]

\* Handler::handle once get or put has returned result: take the client
\* out of the set and return the result
HandleReturns(h, result) ==
    [handler |-> [h EXCEPT !.state = "returned", !.result = result],
     pool |-> active_clients_pool \ {h.client}]

\* what a send on the Handler's socket, which is connected to the client,
\* puts out: the datagram, or nothing when the send fails
HandlerSend(h, delivered, bytes) ==
    IF delivered THEN UdpSend(Some(h.client), bytes).out ELSE <<>>

\* Handler::get up to conn.put: open the file for reading; when that fails
\* send the Error packet made of the error and return
HandlerGet(h, delivered) ==
    IF h.filename \in serve_dir
    THEN [handler |-> [h EXCEPT !.state = "transfer"],
          pool |-> active_clients_pool, dir |-> serve_dir, out |-> <<>>]
    ELSE LET error == PacketFromIoError("NotFound")
             ret == HandleReturns(h, Fail(IoErrorFromPacket(error)))
         IN  [handler |-> ret.handler, pool |-> ret.pool, dir |-> serve_dir,
              out |-> HandlerSend(h, delivered, PacketIntoBytes(error))]

\* Handler::put acknowledging the request before it opens the file
HandlerPutAcksFirst(h, delivered) ==
    IF h.filename \in serve_dir
    THEN LET error == PacketFromIoError("AlreadyExists")
             ret == HandleReturns(h, Fail(IoErrorFromPacket(error)))
         IN  [handler |-> ret.handler, pool |-> ret.pool, dir |-> serve_dir,
              out |-> HandlerSend(h, delivered, PacketIntoBytes(PacketAck(0)))
                        \o HandlerSend(h, delivered, PacketIntoBytes(error))]
    ELSE [handler |-> [h EXCEPT !.state = "transfer"],
          pool |-> active_clients_pool,
          dir |-> serve_dir \cup {h.filename},
          out |-> HandlerSend(h, TRUE, PacketIntoBytes(PacketAck(0)))]

\* Handler::put up to conn.get: create the file, which fails if it exists,
\* and send Ack(0); when the open fails send the Error packet made of the
\* error and return; when the send of Ack(0) fails return its error
HandlerPut(h, delivered) ==
    IF h.filename \in serve_dir
    THEN LET error == PacketFromIoError("AlreadyExists")
             ret == HandleReturns(h, Fail(IoErrorFromPacket(error)))
         IN  [handler |-> ret.handler, pool |-> ret.pool, dir |-> serve_dir,
              out |-> HandlerSend(h, delivered, PacketIntoBytes(error))]
    ELSE IF delivered
    THEN [handler |-> [h EXCEPT !.state = "transfer"],
          pool |-> active_clients_pool,
          dir |-> serve_dir \cup {h.filename},
          out |-> HandlerSend(h, TRUE, PacketIntoBytes(PacketAck(0)))]
    ELSE LET ret == HandleReturns(h, Fail(SendError))
         IN  [handler |-> ret.handler, pool |-> ret.pool,
              dir |-> serve_dir \cup {h.filename}, out |-> <<>>]

\* Handler::handle, up to the start of the transfer
HandleOpen(i) ==
    /\ i \in DOMAIN handlers
    /\ handlers[i].state = "new"
    /\ \E delivered \in BOOLEAN :
       \E out \in {IF handlers[i].direction = "Get"
                   THEN HandlerGet(handlers[i], delivered)
                   ELSE HandlerPut(handlers[i], delivered)} :
         /\ handlers' = [handlers EXCEPT ![i] = out.handler]
         /\ active_clients_pool' = out.pool
         /\ serve_dir' = out.dir
         /\ wire' = wire \o out.out
    /\ UNCHANGED <<requests, requests_sent, serve_results, client_vars,
                   codec_vars>>
    /\ UNCHANGED <<config, put_vars, get_vars, to_get, to_put, timeouts, dups>>

\* what Connection::put and Connection::get end with: Ok, an error, a panic
TransferResults == {Returned, Fail(TimeoutError), Panic}

\* Handler::handle, the transfer: it runs to its end and handle returns its
\* result; a panic in it unwinds through handle
HandleTransfer(i) ==
    /\ i \in DOMAIN handlers
    /\ handlers[i].state = "transfer"
    /\ \E result \in TransferResults :
       \E out \in {IF result = Panic
                   THEN [handler |-> [handlers[i] EXCEPT !.state = "panicked",
                                                         !.result = Panic],
                         pool |-> active_clients_pool]
                   ELSE HandleReturns(handlers[i], result)} :
         /\ handlers' = [handlers EXCEPT ![i] = out.handler]
         /\ active_clients_pool' = out.pool
    /\ UNCHANGED <<requests, requests_sent, serve_results, serve_dir, wire,
                   client_vars, codec_vars>>
    /\ UNCHANGED <<config, put_vars, get_vars, to_get, to_put, timeouts, dups>>

\* a server with no transfer of this module's two engines going on
InitServer ==
    /\ InitEngines
    /\ source = <<>>
    /\ max_retransmissions = None
    /\ read_timeout = FALSE
    /\ stream_faults = FALSE

NextServer ==
    \/ ClientSends
    \/ Serve
    \/ \E i \in 1..MaxRequests : HandleOpen(i)
    \/ \E i \in 1..MaxRequests : HandleTransfer(i)

\* a server whose caller loops on serve and runs each Handler on a thread
SpecServer == InitServer /\ [][NextServer]_vars

(***************************************************************************)
(* client.rs: Client::put up to its first Data packet, against the server. *)
(***************************************************************************)
\* the address of the client's socket
ClientAddr == "c1"

\* Mode::Octet
ModeOctet == <<111, 99, 116, 101, 116>>

\* the names that the client may put a file under: "f", which the served
\* directory holds, and "g"
ClientFiles == {<<102>>, <<103>>}

\* Client::put: send the write request to the server's address
ClientPutSends ==
    /\ put_pc = "new"
    /\ \E file \in ClientFiles :
         requests' =
             Append(requests,
                    [src_addr |-> ClientAddr,
                     bytes |-> PacketIntoBytes(PacketWrq(file, ModeOctet))])
    /\ requests_sent' = requests_sent + 1
    /\ put_pc' = "reply"
    /\ UNCHANGED <<active_clients_pool, handlers, serve_results, serve_dir,
                   wire, client_vars, codec_vars>>
    /\ UNCHANGED <<config, current_block, put_retrans, reader_pos, bytes_read,
                   data_bytes, put_result, put_sent, put_rcvd, get_vars,
                   to_get, to_put, timeouts, dups>>

\* what hosts other than the server's Handler may send to the client's
\* socket
ForeignReplies ==
    { <<0, OpAck, 0, 1>>,
      <<0, OpData, 0, 1, 7>>,
      <<0, OpError, 0, CodeFileNotFound, 65, 0>>,
      <<0>> }

\* a datagram that the Handler did not send arrives at the client's socket,
\* which is not connected yet and takes datagrams from any address
ForeignReply ==
    /\ put_pc = "reply"
    /\ injected < MaxInject
    /\ \E d \in ForeignReplies :
         wire' = Append(wire, [dst |-> ClientAddr, bytes |-> d])
    /\ injected' = injected + 1
    /\ UNCHANGED <<active_clients_pool, requests, requests_sent, handlers,
                   serve_results, serve_dir, client_vars, codec_vars>>
    /\ UNCHANGED <<source, max_retransmissions, read_timeout, stream_faults,
                   reader_chunk,
                   put_send_fails, get_send_fails, put_vars, get_vars, to_get,
                   to_put, timeouts, dups>>

\* the datagrams that have been sent to the client's socket, oldest first
ClientInbox == SelectSeq(wire, LAMBDA d : d.dst = ClientAddr)

\* Client::put on the datagram that recv_from returned: decode it as an Ack;
\* when that fails, turn the error of the decoder into an Error packet and
\* that packet into the io::Error to return; else go on to Connection::put
ClientPutHandshake(bytes) ==
    LET ack == PacketFromBytes(OpAck, bytes) IN
    IF ack = Panic THEN [pc |-> "panicked", result |-> Panic]
    ELSE IF IsOk(ack) THEN [pc |-> "read", result |-> Running]
    ELSE [pc |-> "failed",
          result |-> Fail(IoErrorFromPacket(PacketFromIoError(ack.kind)))]

\* Client::put: take the first datagram off the socket and decide on it
ClientPutReply ==
    /\ put_pc = "reply"
    /\ ClientInbox # <<>>
    /\ \E bytes \in {Take(Head(ClientInbox).bytes, MAX_PACKET_SIZE)} :
       \E out \in {ClientPutHandshake(bytes)} :
         /\ client_reply' = Some(bytes)
         /\ put_pc' = out.pc
         /\ put_result' = out.result
    /\ UNCHANGED <<server_vars, codec_vars>>
    /\ UNCHANGED <<config, current_block, put_retrans, reader_pos, bytes_read,
                   data_bytes, put_sent, put_rcvd, get_vars, to_get, to_put,
                   timeouts, dups>>

\* Client::put has not sent its request yet; the reader holds less than a
\* block, a block, or more
InitClientPut ==
    /\ InitAt("new")
    /\ reader_chunk = MAX_PAYLOAD_SIZE
    /\ fn_input = None
    /\ fn_output = None
    /\ source \in Sources
    /\ max_retransmissions = None
    /\ read_timeout = FALSE
    /\ stream_faults = FALSE

NextClientPut ==
    \/ ClientPutSends
    \/ Serve
    \/ \E i \in 1..MaxRequests : HandleOpen(i)
    \/ ForeignReply
    \/ ClientPutReply
    \/ PutRead

\* one client putting a file: its request, the server's serve and the
\* Handler's open, the reply, and the client's first Data packet
SpecClientPut == InitClientPut /\ [][NextClientPut]_vars

(***************************************************************************)
(* The functions of the codec and of the block counter, applied to         *)
(* arguments taken one at a time.                                          *)
(***************************************************************************)
\* how far from either end of the range of u16 the block numbers go
BlockWindow == 30

\* block numbers at the low and at the high end of u16
EdgeBlocks == (0..BlockWindow) \cup ((U16 - 1 - BlockWindow)..(U16 - 1))

\* the engines idle, no function applied yet
InitFn ==
    /\ InitAt("read")
    /\ reader_chunk = MAX_PAYLOAD_SIZE
    /\ source = <<>>
    /\ max_retransmissions = None
    /\ read_timeout = FALSE
    /\ stream_faults = FALSE
    /\ fn_output = None

\* put, `current_block += 1`, in a build with or without overflow checks
ApplyNextBlock ==
    /\ fn_output = None
    /\ fn_output' = Some(NextBlock(Unwrap(fn_input).block,
                                   Unwrap(fn_input).overflow_checks))
    /\ UNCHANGED <<config, put_vars, get_vars, to_get, to_put, timeouts, dups,
                   server_vars, client_vars, fn_input>>

InitNextBlock ==
    /\ InitFn
    /\ fn_input \in {Some([block |-> b, overflow_checks |-> c]) :
                        b \in EdgeBlocks, c \in BOOLEAN}

\* the block counter of put stepping on from any value
SpecNextBlock == InitNextBlock /\ [][ApplyNextBlock]_vars

\* Opcode: the five packet types
Opcodes == {OpRrq, OpWrq, OpData, OpAck, OpError}

\* every prefix of s, s and the empty one included
Prefixes(s) == {Take(s, n) : n \in 0..Len(s)}

\* one well-formed packet of each type on the wire, and one of no type
SampleDatagrams ==
    { <<0, OpRrq, 102, 0, 111, 99, 116, 101, 116, 0>>,
      <<0, OpWrq, 103, 0, 109, 97, 105, 108, 0>>,
      <<0, OpData, 0, 1, 7, 8>>,
      <<0, OpAck, 0, 1>>,
      <<0, OpError, 0, CodeFileNotFound, 65, 0>>,
      <<0, 9, 0, 0>> }

\* those datagrams cut off after any number of bytes
TruncatedDatagrams == UNION {Prefixes(d) : d \in SampleDatagrams}

\* texts: empty, "f", "a b", "e" with an acute accent (two bytes of UTF-8)
SampleTexts == {<<>>, <<102>>, <<97, 32, 98>>, <<195, 169>>}

\* a text that no TFTP string can carry: it holds a NUL
TextWithNul == <<65, 0, 66>>

\* payloads: none, one byte, NULs, a full block
SamplePayloads == {<<>>, <<7>>, <<0, 0>>, SourceOf(MAX_PAYLOAD_SIZE)}

\* block numbers of one byte and of two
SampleBlocks == {0, 1, 255, 256, U16 - 1}

\* packets of the five types as the constructors of Packet make them
SamplePackets ==
    {PacketRrq(f, m) : f \in SampleTexts \cup {TextWithNul}, m \in ModeNames}
    \cup {PacketWrq(f, m) : f \in SampleTexts, m \in ModeNames}
    \cup {PacketData(b, d) : b \in SampleBlocks, d \in SamplePayloads}
    \cup {PacketAck(b) : b \in SampleBlocks}
    \cup {PacketError(c, t) : c \in 0..7, t \in SampleTexts \cup {TextWithNul}}

\* the Strings that the packet holds
StringsOf(packet) ==
    IF packet.header \in {OpRrq, OpWrq} THEN {packet.body.filename}
    ELSE IF packet.header = OpError THEN {packet.body.message}
    ELSE {}

\* Packet<T>::into_bytes, which unwinds when the encoding of a String does
TryPacketIntoBytes(packet) ==
    IF \E t \in StringsOf(packet) : StringIntoBytes(t) = Panic THEN Panic
    ELSE Ok(PacketIntoBytes(packet))

\* Packet::<T>::from_bytes on a buffer, for the T of opcode op
ApplyFromBytes ==
    /\ fn_output = None
    /\ Unwrap(fn_input).fn = "from_bytes"
    /\ fn_output' = Some(PacketFromBytes(Unwrap(fn_input).op,
                                         Unwrap(fn_input).bytes))
    /\ UNCHANGED <<config, put_vars, get_vars, to_get, to_put, timeouts, dups,
                   server_vars, client_vars, fn_input>>

\* into_bytes on a packet, and from_bytes of each of the five types on the
\* bytes
ApplyRoundTrip ==
    /\ fn_output = None
    /\ Unwrap(fn_input).fn = "round_trip"
    /\ \E bytes \in {TryPacketIntoBytes(Unwrap(fn_input).packet)} :
         fn_output' =
             Some(IF bytes = Panic THEN Panic
                  ELSE [op \in Opcodes |-> PacketFromBytes(op, bytes.val)])
    /\ UNCHANGED <<config, put_vars, get_vars, to_get, to_put, timeouts, dups,
                   server_vars, client_vars, fn_input>>

InitCodec ==
    /\ InitFn
    /\ fn_input \in
         {Some([fn |-> "from_bytes", op |-> op, bytes |-> d]) :
             op \in Opcodes, d \in TruncatedDatagrams}
         \cup {Some([fn |-> "round_trip", packet |-> p]) : p \in SamplePackets}

NextCodec ==
    \/ ApplyFromBytes
    \/ ApplyRoundTrip

\* the decoders on whole and truncated datagrams, and the encoders followed
\* by the decoders on packets
SpecCodec == InitCodec /\ [][NextCodec]_vars

(***************************************************************************)
(* Reading the histories.                                                  *)
(***************************************************************************)
Last(s) == s[Len(s)]

IsDataDatagram(d) == Len(d) >= 4 /\ d[1] = 0 /\ d[2] = OpData

IsAckDatagram(d) == Len(d) = 4 /\ d[1] = 0 /\ d[2] = OpAck

IsErrorDatagram(d) == Len(d) >= 5 /\ d[1] = 0 /\ d[2] = OpError

\* the block number a Data or Ack datagram carries
BlockOf(d) == d[3] * 256 + d[4]

\* the payload a Data datagram carries
PayloadOf(d) == SubSeq(d, 5, Len(d))

\* the Error packet of retry exhaustion, on the wire
ExceededDatagram ==
    <<0, OpError, 0, CodeNotDefined>> \o MsgExceeded \o <<0>>

\* the block numbers of the Acks put has received
AcksReceived == {BlockOf(put_rcvd[i]) : i \in {j \in DOMAIN put_rcvd : IsAckDatagram(put_rcvd[j])}}

\* the block numbers of the Data packets put has sent
DataBlocksSent == {BlockOf(put_sent[i]) : i \in {j \in DOMAIN put_sent : IsDataDatagram(put_sent[j])}}

\* the i-th block of the source, 1-based: 512 bytes, or what is left
SourceBlock(i) ==
    SubSeq(source, (i - 1) * MAX_PAYLOAD_SIZE + 1,
           Min(i * MAX_PAYLOAD_SIZE, Len(source)))

\* n copies of x
Copies(n, x) == [i \in 1..n |-> x]

\* the error of a recv whose read deadline expired
IsTimeoutFailure(result) ==
    result.tag = "fail" /\ result.error.kind \in TimeoutKinds

(***************************************************************************)
(* The claims.                                                             *)
(***************************************************************************)
\* C1: over a network that neither loses, duplicates nor reorders, for
\* every source (the empty one and exact multiples of 512 included), put and
\* get both end up returned successfully with the writer holding exactly the
\* source bytes, the Data packets sent being the source cut into blocks
\* 1, 2, ..., and a source whose length is a multiple of 512 being ended by
\* one extra Data packet with an empty payload.
C1_ReliableTransferCompletes ==
    <>[](/\ put_pc = "done" /\ put_result = Returned
         /\ get_pc = "done" /\ get_result = Returned
         /\ writer = source
         /\ Len(put_sent) = Len(source) \div MAX_PAYLOAD_SIZE + 1
         /\ \A i \in DOMAIN put_sent :
                /\ IsDataDatagram(put_sent[i])
                /\ BlockOf(put_sent[i]) = i
                /\ PayloadOf(put_sent[i]) = SourceBlock(i)
         /\ (Len(source) % MAX_PAYLOAD_SIZE = 0
                => PayloadOf(Last(put_sent)) = <<>>))

\* C1 witness: a source of exactly one full block has been transferred, in
\* two Data packets
C1_Witness ==
    /\ put_pc = "done" /\ get_pc = "done"
    /\ Len(source) = MAX_PAYLOAD_SIZE
    /\ writer = source
    /\ Len(put_sent) = 2
    /\ Len(Last(put_sent)) = 4

\* C2 (as claimed): over a network that may lose and may duplicate
\* datagrams, whenever get has returned successfully its writer holds
\* exactly the source bytes.
C2_WriterEqualsSource ==
    (get_pc = "done" /\ get_result = Returned) => writer = source

\* C3: put never sends Data(N), N > 1, before it has received an Ack
\* carrying block N-1, and at every moment at most one Data block that it
\* has sent is unacknowledged.
C3_LockStep ==
    /\ \A n \in DataBlocksSent : n = 1 \/ (n - 1) \in AcksReceived
    /\ Cardinality(DataBlocksSent \ AcksReceived) <= 1

\* C3 witness: put has sent Data(2), after the Ack of block 1
C3_Witness == 2 \in DataBlocksSent /\ 1 \in AcksReceived

\* the step is one in which get hands an Ack to its socket
GetSendsAck == get_sent' # get_sent /\ IsAckDatagram(Last(get_sent'))

\* the step is a read deadline expiring in get after which get goes on
GetRetransmits == get_retrans' = get_retrans + 1 /\ ~Ended(get_pc')

\* the step is a read deadline expiring in put after which put goes on
PutRetransmits == put_retrans' = put_retrans + 1 /\ ~Ended(put_pc')

\* C4: every Ack get sends, a first transmission or a retransmission, is
\* sent when the payload of a Data packet is in the writer already and
\* carries the block number of the Data packet written most recently; no
\* Ack is sent before the first Data packet has been received.
C4_AckAfterWrite ==
    [][GetSendsAck =>
          /\ get_nrecv >= 1
          /\ written # <<>>
          /\ BlockOf(Last(get_sent')) = Last(written)
          /\ Len(writer) >= Len(data.data)
          /\ SubSeq(writer, Len(writer) - Len(data.data) + 1, Len(writer)) = data.data
          /\ written' = written /\ writer' = writer]_vars

\* C4 witness: get has sent the Ack of a block and then sent it again
C4_Witness ==
    /\ Len(get_sent) >= 2
    /\ IsAckDatagram(get_sent[1])
    /\ get_sent[2] = get_sent[1]
    /\ Len(written) = 1

\* C5: get returns successfully exactly when it has written and
\* acknowledged a Data packet whose payload is shorter than 512 bytes; after
\* acknowledging a Data packet of exactly 512 bytes it awaits another
\* datagram.
C5_CompletesOnShortBlock ==
    /\ [](get_pc = "done" =>
            /\ get_result = Returned
            /\ Len(data.data) < MAX_PAYLOAD_SIZE
            /\ written # <<>> /\ Last(written) = data.block
            /\ get_sent # <<>> /\ Last(get_sent) = <<0, OpAck>> \o U16IntoBytes(data.block))
    /\ [](get_result = Returned => get_pc = "done")
    /\ [][(get_pc = "ack" /\ get_pc' # "ack") =>
            IF Len(data.data) < MAX_PAYLOAD_SIZE
            THEN get_pc' = "done"
            ELSE get_pc' = "recv" /\ get_result' = Running]_vars
    /\ [][(get_pc # "done" /\ get_pc' = "done") => get_pc = "ack"]_vars

\* C5 witness: get awaited again after a block of 512 bytes and returned
\* after the empty block that followed it
C5_Witness ==
    /\ get_pc = "done" /\ get_result = Returned
    /\ data.data = <<>> /\ data.block = 2
    /\ Len(writer) = MAX_PAYLOAD_SIZE
    /\ Len(get_sent) = 2

\* C6: with max_retransmissions = Some(N) and a peer from which nothing
\* arrives after the first exchange (put: no datagram at all; get: the one
\* Data packet it acknowledged), the engine sends its pending packet (the
\* first Data packet in put, the Ack in get) at most N+1 times while it is
\* running, and when it has ended it has returned the timeout error and
\* has sent the pending packet exactly N+1 times followed by exactly one
\* Error(NotDefined, "exceeded max retransmissions"), and nothing else.
C6_GivesUpAfterNRetransmissions ==
    /\ (max_retransmissions # None /\ put_rcvd = <<>> /\ put_pc = "recv") =>
          /\ put_retrans <= Unwrap(max_retransmissions)
          /\ put_sent = Copies(put_retrans + 1,
                               <<0, OpData, 0, 1>> \o SourceBlock(1))
    /\ (put_rcvd = <<>> /\ Ended(put_pc)) =>
          /\ max_retransmissions # None
          /\ put_result = Fail(TimeoutError)
          /\ put_sent =
                Copies(Unwrap(max_retransmissions) + 1,
                       <<0, OpData, 0, 1>> \o SourceBlock(1))
                    \o <<ExceededDatagram>>
    /\ (max_retransmissions # None /\ get_nrecv = 1 /\ get_pc = "recv") =>
          /\ get_retrans <= Unwrap(max_retransmissions)
          /\ get_sent = Copies(get_retrans + 1,
                               <<0, OpAck>> \o U16IntoBytes(written[1]))
    /\ (get_nrecv = 1 /\ IsTimeoutFailure(get_result)) =>
          /\ max_retransmissions # None
          /\ get_pc = "failed"
          /\ get_sent =
                Copies(Unwrap(max_retransmissions) + 1,
                       <<0, OpAck>> \o U16IntoBytes(written[1]))
                    \o <<ExceededDatagram>>

\* C6 witness: with Some(1), put has given up on a peer that never answered:
\* two copies of Data(1), then the Error
C6_Witness ==
    /\ max_retransmissions = Some(1)
    /\ put_pc = "failed" /\ IsTimeoutFailure(put_result) /\ put_rcvd = <<>>
    /\ Len(put_sent) = 3
    /\ put_sent[1] = put_sent[2]
    /\ put_sent[3] = ExceededDatagram

\* the step is a read deadline expiring in put
PutTimesOut == timeouts' = timeouts + 1 /\ put_retrans' # put_retrans

\* the step is a read deadline expiring in get after get has sent an Ack
GetTimesOut == timeouts' = timeouts + 1 /\ get_retrans' # get_retrans

\* C7: with max_retransmissions = Some(0), which is what
\* RetransmissionConfig::NoRetransmission maps to, the first read deadline
\* that expires while a response is awaited (in put; in get once it has
\* sent an Ack) ends the operation with the timeout error: no packet is
\* sent again, and the one datagram sent is
\* Error(NotDefined, "exceeded max retransmissions").
C7_NoRetransmissionFailsOnFirstTimeout ==
    /\ [](MaxRetransmissionsOf(NoRetransmission) = Some(0))
    /\ [][(max_retransmissions = Some(0) /\ PutTimesOut) =>
            /\ put_pc' = "failed"
            /\ put_result' = Fail(TimeoutError)
            /\ put_sent' = Append(put_sent, ExceededDatagram)
            /\ put_retrans = 0]_vars
    /\ [][(max_retransmissions = Some(0) /\ GetTimesOut) =>
            /\ get_pc' = "failed"
            /\ get_result' = Fail(TimeoutError)
            /\ get_sent' = Append(get_sent, ExceededDatagram)
            /\ get_retrans = 0]_vars

\* C7 witness: with Some(0), get gave up at its first timeout after one Ack
C7_Witness ==
    /\ max_retransmissions = Some(0)
    /\ get_pc = "failed" /\ IsTimeoutFailure(get_result)
    /\ Len(get_sent) = 2 /\ IsAckDatagram(get_sent[1])
    /\ get_sent[2] = ExceededDatagram

\* C8: with max_retransmissions = None no timeout makes an operation give
\* up: put never ends with the timeout error, get does not once it has
\* sent an Ack, neither sends the "exceeded max retransmissions" Error, and
\* every read deadline that expires is followed by the pending packet
\* being sent again.
C8_UnboundedRetransmissions ==
    /\ [](max_retransmissions = None =>
            /\ ~IsTimeoutFailure(put_result)
            /\ (IsTimeoutFailure(get_result) => get_sent = <<>>)
            /\ \A i \in DOMAIN put_sent : put_sent[i] # ExceededDatagram
            /\ \A i \in DOMAIN get_sent : get_sent[i] # ExceededDatagram)
    /\ [][(max_retransmissions = None /\ PutTimesOut) =>
            put_pc' = "recv" /\ put_sent' = Append(put_sent, Last(put_sent))]_vars
    /\ [][(max_retransmissions = None /\ GetTimesOut) =>
            get_pc' = "recv" /\ get_sent' = Append(get_sent, Last(get_sent))]_vars

\* C8 witness: with None, every timeout of the run hit put, which is still
\* awaiting its Ack
C8_Witness ==
    /\ max_retransmissions = None
    /\ put_retrans = MaxTimeouts
    /\ put_pc = "recv"
    /\ Len(put_sent) = MaxTimeouts + 1

\* C9: when a read deadline expires in get after at least one Ack was sent
\* and the policy permits a retransmission, get sends an Ack with the block
\* number of the last Ack it sent and awaits again, with the writer as it
\* was; a Data packet that arrives after that is still written.
C9_GetRetransmitsLastAck ==
    /\ [][GetRetransmits =>
            /\ last_block # None
            /\ IsAckDatagram(Last(get_sent))
            /\ BlockOf(Last(get_sent)) = Unwrap(last_block)
            /\ get_sent' = Append(get_sent, <<0, OpAck>> \o U16IntoBytes(Unwrap(last_block)))
            /\ get_pc' = "recv"
            /\ writer' = writer /\ last_block' = last_block]_vars
    /\ [][(get_retrans > 0 /\ get_nrecv' = get_nrecv + 1
              /\ IsDataDatagram(Head(to_get))) =>
            /\ writer' = writer \o PayloadOf(Head(to_get))
            /\ get_pc' = "ack"]_vars

\* C9 witness: get has completed a transfer of two blocks in which it sent
\* the Ack of block 1 twice
C9_Witness ==
    /\ get_pc = "done"
    /\ written = <<1, 2>>
    /\ writer = source
    /\ Len(get_sent) = 3
    /\ get_sent[1] = get_sent[2]

\* C10: when a read deadline expires in put and the policy permits a
\* retransmission, put sends a Data packet identical to the one it sent
\* last (same block number, same payload) and has not read from the reader:
\* the reader's position, bytes_read and current_block are unchanged.
C10_PutRetransmitsSameData ==
    [][PutRetransmits =>
          /\ IsDataDatagram(Last(put_sent))
          /\ put_sent' = Append(put_sent, Last(put_sent))
          /\ BlockOf(Last(put_sent')) = current_block
          /\ PayloadOf(Last(put_sent')) =
                SubSeq(source, reader_pos - bytes_read + 1, reader_pos)
          /\ put_pc' = "recv"
          /\ reader_pos' = reader_pos
          /\ bytes_read' = bytes_read
          /\ current_block' = current_block]_vars

\* C10 witness: put has sent Data(2) twice; the reader stands past it
C10_Witness ==
    /\ Len(put_sent) >= 3
    /\ current_block = 2
    /\ put_retrans >= 1
    /\ BlockOf(put_sent[2]) = 2
    /\ put_sent[3] = put_sent[2]
    /\ reader_pos = Len(source)

\* the step is a recv of get that returned a datagram
GetReceives == get_nrecv' = get_nrecv + 1

\* the datagram that recv of get returns next
GetDatagram == Take(Head(to_get), MAX_PACKET_SIZE)

\* the step is a recv of put that returned a datagram
PutReceives == Len(put_rcvd') = Len(put_rcvd) + 1

\* the datagram that recv of put returns next
PutDatagram == Take(Head(to_put), MAX_PACKET_SIZE)

\* the bytes decode as a packet of the type whose opcode is op
DecodesAs(op, d) == IsOk(PacketFromBytes(op, d))

\* the Error packet expect_packet answers with, on the wire
IllegalOperationDatagram ==
    <<0, OpError, 0, CodeIllegalOperation>> \o MsgIllegalOperation \o <<0>>

\* the error expect_packet returns with it
IllegalOperationFailure == Fail(IoError("Other", MsgIllegalOperation))

\* C11: when get receives a datagram that decodes neither as Data nor as
\* Error, or put one that decodes neither as Ack nor as Error, the engine
\* sends one Error packet with code IllegalOperation, returns the
\* illegal-operation error, and has neither written to the writer nor
\* advanced the block counter.
C11_MalformedDatagramAnswered ==
    /\ [][(GetReceives /\ ~DecodesAs(OpData, GetDatagram)
              /\ ~DecodesAs(OpError, GetDatagram)) =>
            /\ get_pc' = "failed"
            /\ get_result' = IllegalOperationFailure
            /\ get_sent' = Append(get_sent, IllegalOperationDatagram)
            /\ writer' = writer
            /\ written' = written
            /\ last_block' = last_block]_vars
    /\ [][(PutReceives /\ ~DecodesAs(OpAck, PutDatagram)
              /\ ~DecodesAs(OpError, PutDatagram)) =>
            /\ put_pc' = "failed"
            /\ put_result' = IllegalOperationFailure
            /\ put_sent' = Append(put_sent, IllegalOperationDatagram)
            /\ current_block' = current_block
            /\ reader_pos' = reader_pos]_vars

\* the io::Error that an Error packet on the wire stands for: the kind that
\* goes with its code, and its message
ErrorOfDatagram(d) ==
    IoError(IF d[4] = CodeFileNotFound THEN "NotFound"
            ELSE IF d[4] = CodeAccessViolation THEN "PermissionDenied"
            ELSE IF d[4] = CodeFileAlreadyExists THEN "AlreadyExists"
            ELSE "Other",
            SubSeq(d, 5, Len(d) - 1))

\* C12: when an engine receives a well-formed Error packet where it expects
\* Data (get) or an Ack (put), it ends the transfer returning the error
\* that goes with the packet's code and message, and sends nothing.
C12_PeerErrorEndsTransfer ==
    /\ [][(GetReceives /\ DecodesAs(OpError, GetDatagram)) =>
            /\ get_pc' = "failed"
            /\ get_result' = Fail(ErrorOfDatagram(GetDatagram))
            /\ get_sent' = get_sent
            /\ to_put' = to_put
            /\ writer' = writer]_vars
    /\ [][(PutReceives /\ DecodesAs(OpError, PutDatagram)) =>
            /\ put_pc' = "failed"
            /\ put_result' = Fail(ErrorOfDatagram(PutDatagram))
            /\ put_sent' = put_sent
            /\ to_get' = to_get]_vars

\* C12 witness: put has ended on Error(FileNotFound, "A") with the
\* not-found error, having sent its first Data packet and nothing else
C12_Witness ==
    /\ put_pc = "failed"
    /\ put_rcvd = << <<0, OpError, 0, CodeFileNotFound, 65, 0>> >>
    /\ put_result = Fail(IoError("NotFound", <<65>>))
    /\ Len(put_sent) = 1

\* C13: an Error packet is terminal: an engine that has sent one has ended
\* and sent it last, an engine that receives one ends without sending, and
\* an engine that has ended sends nothing more.
C13_ErrorIsTerminal ==
    /\ [](\A i \in DOMAIN put_sent :
            IsErrorDatagram(put_sent[i]) => i = Len(put_sent) /\ Ended(put_pc))
    /\ [](\A i \in DOMAIN get_sent :
            IsErrorDatagram(get_sent[i]) => i = Len(get_sent) /\ Ended(get_pc))
    /\ [](\A i \in DOMAIN put_rcvd :
            DecodesAs(OpError, put_rcvd[i]) => i = Len(put_rcvd) /\ Ended(put_pc))
    /\ [][(PutReceives /\ DecodesAs(OpError, PutDatagram)) =>
            Ended(put_pc') /\ put_sent' = put_sent]_vars
    /\ [][(GetReceives /\ DecodesAs(OpError, GetDatagram)) =>
            Ended(get_pc') /\ get_sent' = get_sent]_vars
    /\ [][Ended(put_pc) => put_pc' = put_pc /\ put_sent' = put_sent]_vars
    /\ [][Ended(get_pc) => get_pc' = get_pc /\ get_sent' = get_sent]_vars

\* C13 witness: put ended by sending the Error for an Ack of block 2 where
\* it awaited block 1, and get ended by receiving that Error after it had
\* acknowledged block 1
C13_Witness ==
    /\ put_pc = "failed"
    /\ IsErrorDatagram(Last(put_sent))
    /\ get_pc = "failed"
    /\ get_result = Fail(IoError("Other", MsgUnexpectedAck(1, 2)))
    /\ Len(get_sent) = 1

\* C14: when put receives an Ack whose block number differs from
\* current_block, it sends an Error packet with code IllegalOperation and
\* returns the illegal-operation error that goes with it; current_block
\* changes only by one, on an Ack of current_block.
C14_MismatchingAckAborts ==
    /\ [][(PutReceives /\ DecodesAs(OpAck, PutDatagram)
              /\ BlockOf(PutDatagram) # current_block) =>
            /\ put_pc' = "failed"
            /\ current_block' = current_block
            /\ reader_pos' = reader_pos
            /\ Len(put_sent') = Len(put_sent) + 1
            /\ DecodesAs(OpError, Last(put_sent'))
            /\ Last(put_sent')[4] = CodeIllegalOperation
            /\ put_result' = Fail(ErrorOfDatagram(Last(put_sent')))]_vars
    /\ [][current_block' # current_block =>
            /\ PutReceives
            /\ DecodesAs(OpAck, PutDatagram)
            /\ BlockOf(PutDatagram) = current_block
            /\ current_block' = current_block + 1]_vars

\* C14 witness: put awaited the Ack of block 1, received the Ack of block 2
\* and ended with the Error sent
C14_Witness ==
    /\ put_pc = "failed"
    /\ current_block = 1
    /\ put_rcvd = << <<0, OpAck, 0, 2>> >>
    /\ Len(put_sent) = 2
    /\ Last(put_sent)[4] = CodeIllegalOperation
    /\ put_result = Fail(IoError("Other", MsgUnexpectedAck(1, 2)))

\* put has returned the error of an Ack that was not the one it awaited
IsUnexpectedAckFailure(result) ==
    /\ result.tag = "fail"
    /\ \E b \in 0..(MaxBlocks + 2) :
         result.error = IoError("Other", MsgUnexpectedAck(current_block, b))

\* C15: when get has received and acknowledged a Data packet a second time
\* (and every Ack it sent answered a Data packet, none a timeout), put does
\* not abort over the repeated Ack.
C15_DuplicateDataHarmless ==
    (/\ \E i \in 1..(Len(written) - 1) : written[i] = written[i + 1]
     /\ Len(get_sent) <= Len(written))
        => ~IsUnexpectedAckFailure(put_result)

\* the Error packet, on the wire, that reports the stream error e: code
\* AccessViolation for a permission-denied error, NotDefined for an error of
\* kind Other, and the error's text
StreamErrorDatagram(e) ==
    <<0, OpError, 0,
      IF e.kind = "PermissionDenied" THEN CodeAccessViolation
      ELSE CodeNotDefined>> \o e.message \o <<0>>

\* C16: when get has received a Data packet and writing its payload fails,
\* get sends one Error packet whose code is mapped from the write error,
\* sends no Ack for that block, writes nothing, and returns the write error
\* with its kind and message; put then ends with that error too.
C16_WriteFailureReported ==
    /\ [][(GetReceives /\ DecodesAs(OpData, GetDatagram)
              /\ written' = written) =>
            /\ get_pc' = "failed"
            /\ writer' = writer
            /\ last_block' = last_block
            /\ \E e \in StreamErrors :
                 /\ get_result' = Fail(e)
                 /\ get_sent' = Append(get_sent, StreamErrorDatagram(e))]_vars
    /\ []((get_pc = "failed" /\ get_sent # <<>>
              /\ IsErrorDatagram(Last(get_sent))) =>
            /\ Len(get_sent) = Len(written) + 1
            /\ \A i \in 1..Len(written) :
                 IsAckDatagram(get_sent[i]) /\ BlockOf(get_sent[i]) = i)
    /\ (get_pc = "failed" /\ get_result \in {Fail(e) : e \in StreamErrors})
           ~> (put_pc = "failed" /\ put_result = get_result)

\* C16 witness: the writer took block 1 and refused block 2 with a
\* permission-denied error; get sent Ack(1) and Error(AccessViolation) and
\* returned the writer's error, and put ended with an error of that kind
\* and text
C16_Witness ==
    /\ get_pc = "failed"
    /\ get_result = Fail(IoError("PermissionDenied", MsgDenied))
    /\ written = <<1>>
    /\ Len(get_sent) = 2
    /\ Last(get_sent) = <<0, OpError, 0, CodeAccessViolation>> \o MsgDenied \o <<0>>
    /\ put_pc = "failed"
    /\ put_result = get_result

\* the step is put's read of the reader for the next block
PutReads == put_pc = "read" /\ put_pc' # "read"

\* C17: when put reads the reader for a block and the read fails, put sends
\* one mapped Error packet, sends no Data packet for that block, and returns
\* the read error; get then ends with that error too.
C17_ReadFailureReported ==
    /\ [][(PutReads /\ put_pc' = "failed") =>
            /\ reader_pos' = reader_pos
            /\ current_block' = current_block
            /\ \E e \in StreamErrors :
                 /\ put_result' = Fail(e)
                 /\ put_sent' = Append(put_sent, StreamErrorDatagram(e))]_vars
    /\ [][(PutReads /\ put_pc' # "failed") =>
            /\ Len(put_sent') = Len(put_sent) + 1
            /\ IsDataDatagram(Last(put_sent'))
            /\ BlockOf(Last(put_sent')) = current_block]_vars
    /\ []((put_pc = "failed" /\ put_sent # <<>>
              /\ IsErrorDatagram(Last(put_sent))) =>
            /\ Len(put_sent) = current_block
            /\ \A i \in 1..(current_block - 1) :
                 IsDataDatagram(put_sent[i]) /\ BlockOf(put_sent[i]) = i)
    /\ (put_pc = "failed" /\ put_result \in {Fail(e) : e \in StreamErrors})
           ~> (get_pc = "failed" /\ get_result = put_result)

\* C17 witness: the reader gave block 1 and failed with "Fake error" on
\* block 2; put sent Data(1) and Error(NotDefined) and returned the
\* reader's error, and get, with block 1 written, ended with that error
C17_Witness ==
    /\ put_pc = "failed"
    /\ put_result = Fail(IoError("Other", MsgFake))
    /\ current_block = 2
    /\ Len(put_sent) = 2
    /\ Last(put_sent) = <<0, OpError, 0, CodeNotDefined>> \o MsgFake \o <<0>>
    /\ get_pc = "failed"
    /\ get_result = put_result
    /\ written = <<1>>

\* the step is a read deadline expiring in put, and put gives up
PutGivesUp ==
    timeouts' = timeouts + 1 /\ put_pc = "recv" /\ put_pc' = "failed"

\* the step is a read deadline expiring in get, and get gives up
GetGivesUp ==
    timeouts' = timeouts + 1 /\ get_pc = "recv" /\ get_pc' = "failed"

\* the step is a recv of put that returned a datagram of two bytes or more
\* that decodes neither as an Ack nor as an Error packet
PutReceivesMalformed ==
    /\ PutReceives
    /\ Len(PutDatagram) >= 2
    /\ ~DecodesAs(OpAck, PutDatagram)
    /\ ~DecodesAs(OpError, PutDatagram)

\* the step is a recv of get that returned a datagram of two bytes or more
\* that decodes neither as a Data nor as an Error packet
GetReceivesMalformed ==
    /\ GetReceives
    /\ Len(GetDatagram) >= 2
    /\ ~DecodesAs(OpData, GetDatagram)
    /\ ~DecodesAs(OpError, GetDatagram)

\* the step is a recv of put that returned an Ack of another block than
\* current_block
PutReceivesUnexpectedAck ==
    /\ PutReceives
    /\ DecodesAs(OpAck, PutDatagram)
    /\ BlockOf(PutDatagram) # current_block

\* the step is a read of the reader that failed: put leaves the Data
\* packet it holds as it is
PutReadFails == PutReads /\ data_bytes' = data_bytes

\* the step is a recv of get that returned a Data packet whose payload the
\* writer refused
GetWriteFails ==
    GetReceives /\ DecodesAs(OpData, GetDatagram) /\ written' = written

\* C18: on every path on which an engine aborts and sends an Error packet
\* (retry exhaustion, malformed packet, unexpected Ack block, stream
\* failure) the error returned is the original one, whether or not the
\* send of the Error packet succeeds.
C18_ErrorSendIsBestEffort ==
    /\ [][PutGivesUp => IsTimeoutFailure(put_result')]_vars
    /\ [][GetGivesUp => IsTimeoutFailure(get_result')]_vars
    /\ [][PutReceivesMalformed => put_result' = IllegalOperationFailure]_vars
    /\ [][GetReceivesMalformed => get_result' = IllegalOperationFailure]_vars
    /\ [][PutReadFails => put_result' \in {Fail(e) : e \in StreamErrors}]_vars
    /\ [][GetWriteFails => get_result' \in {Fail(e) : e \in StreamErrors}]_vars
    /\ [][PutReceivesUnexpectedAck =>
            put_result' = Fail(IoError("Other",
                  MsgUnexpectedAck(current_block, BlockOf(PutDatagram))))]_vars

\* the step is a call of serve returning
ServeReturns == Len(serve_results') = Len(serve_results) + 1

\* the address of the datagram that serve takes next
NextClient == Head(requests).src_addr

\* what serve returns for a client whose TID is in the set
TidTaken == Fail(IoError("AddrNotAvailable", MsgTidTaken))

\* the Handler has been made and handle has not returned
Unfinished(h) == h.state # "returned"

\* C19: when serve takes a request from an address that is in the set of
\* active clients it returns the AddrNotAvailable error, makes no Handler
\* and touches neither the set nor the served directory; at any time at
\* most one Handler per client address has not finished, and the address
\* of such a Handler is in the set.
C19_DuplicateClientRejected ==
    /\ [][(ServeReturns /\ NextClient \in active_clients_pool) =>
            /\ Last(serve_results') = [client |-> NextClient, result |-> TidTaken]
            /\ handlers' = handlers
            /\ serve_dir' = serve_dir
            /\ active_clients_pool' = active_clients_pool]_vars
    /\ [](\A i, j \in DOMAIN handlers :
            (Unfinished(handlers[i]) /\ Unfinished(handlers[j])
                /\ handlers[i].client = handlers[j].client) => i = j)
    /\ [](\A i \in DOMAIN handlers :
            Unfinished(handlers[i]) =>
                handlers[i].client \in active_clients_pool)

\* C19 witness: while the one Handler of client c1 is in its transfer, a
\* second request of c1 was rejected and one of c2 was given a Handler
C19_Witness ==
    /\ Len(handlers) = 2
    /\ handlers[1].client = "c1"
    /\ handlers[1].state = "transfer"
    /\ handlers[2].client = "c2"
    /\ \E k \in DOMAIN serve_results :
         serve_results[k] = [client |-> "c1", result |-> TidTaken]

\* serve has left the TID of client a in the set without a Handler for it:
\* it returned an error other than the rejection, or panicked
TidLeftBehind(a) ==
    \E k \in DOMAIN serve_results :
        /\ serve_results[k].client = a
        /\ ~IsOk(serve_results[k].result)
        /\ serve_results[k].result # TidTaken

\* C20: when handle returns, with Ok or with an error (that of a failed
\* open included), the client's TID is not in the set; and a request from
\* an address all of whose Handlers have returned is not rejected as a
\* duplicate (unless serve itself left the TID behind).
C20_HandleReleasesTid ==
    /\ [][\A i \in DOMAIN handlers :
            (handlers[i].state # "returned" /\ handlers'[i].state = "returned")
                => /\ handlers[i].client \notin active_clients_pool'
                   /\ handlers'[i].result # Panic
                   /\ handlers'[i].result # Running]_vars
    /\ [][(/\ ServeReturns
           /\ \A i \in DOMAIN handlers :
                handlers[i].client = NextClient => ~Unfinished(handlers[i])
           /\ ~TidLeftBehind(NextClient))
            => Last(serve_results').result # TidTaken]_vars

\* C20 witness: the first Handler of c1, for a write request of a file that
\* exists, returned the already-exists error from the failed open; the
\* second Handler of c1 completed its transfer; a third request of c1 was
\* admitted after that
C20_Witness ==
    /\ Len(handlers) = 3
    /\ \A i \in 1..3 : handlers[i].client = "c1"
    /\ handlers[1].state = "returned"
    /\ handlers[1].result =
           Fail(IoError("AlreadyExists", MsgFileAlreadyExists))
    /\ handlers[2].state = "returned"
    /\ handlers[2].result = Returned
    /\ handlers[3].state = "new"
    /\ active_clients_pool = {"c1"}

\* the datagram that serve takes next, as recv_from hands it over
NextDatagram == Take(Head(requests).bytes, MAX_PACKET_SIZE)

\* what serve has returned in this step
ServeResult == Last(serve_results').result

\* C21: when serve takes, from an address that is not in the set, a
\* datagram (of two bytes or more) that decodes neither as Rrq nor as Wrq,
\* it returns an error and makes no Handler, one Error packet with code
\* IllegalOperation goes out to the sender, and the datagram is gone from
\* the socket.
C21_MalformedRequestAnswered ==
    [][(/\ ServeReturns
        /\ NextClient \notin active_clients_pool
        /\ Len(NextDatagram) >= 2
        /\ ~DecodesAs(OpRrq, NextDatagram)
        /\ ~DecodesAs(OpWrq, NextDatagram))
        => /\ ServeResult.tag = "fail"
           /\ handlers' = handlers
           /\ requests' = Tail(requests)
           /\ Len(wire') = Len(wire) + 1
           /\ Last(wire').dst = NextClient
           /\ Last(wire').bytes = IllegalOperationDatagram]_vars

\* C22: whenever serve returns an error the set of active clients is the
\* one from before the call.
C22_TidRecordedOnAcceptance ==
    [][(ServeReturns /\ ServeResult.tag = "fail")
        => active_clients_pool' = active_clients_pool]_vars

\* C23: a read request for a file of the served directory, from an address
\* that is not in the set of active clients, is given a Handler.
C23_DistinctClientsAdmitted ==
    [][(/\ ServeReturns
        /\ NextClient \notin active_clients_pool
        /\ DecodesAs(OpRrq, NextDatagram)
        /\ PacketFromBytes(OpRrq, NextDatagram).val.body.filename
               \in serve_dir)
        => IsOk(ServeResult)]_vars

\* the datagrams that went out in this step
SentOnWire == SubSeq(wire', Len(wire) + 1, Len(wire'))

\* Ack(0) on the wire
AckZeroDatagram == <<0, OpAck, 0, 0>>

\* the Error packet of a failed create-new open on the wire
FileAlreadyExistsDatagram ==
    <<0, OpError, 0, CodeFileAlreadyExists>> \o MsgFileAlreadyExists \o <<0>>

\* the one datagram `bytes` on its way to the client of Handler i
ToClient(i, bytes) == <<[dst |-> handlers[i].client, bytes |-> bytes]>>

\* handle of Handler i, made for a write request, has run its open in this
\* step
PutHandlerOpens(i) ==
    /\ handlers[i].direction = "Put"
    /\ handlers[i].state = "new"
    /\ handlers'[i].state # "new"

ClientTakesReply == put_pc = "reply" /\ put_pc' # "reply"

\* C25: when the reply to the client's write request is the Error packet
\* with code FileAlreadyExists that the Handler sends for a file that
\* exists, the client's put returns an error of kind AlreadyExists.
C25_PutToExistingFileFails ==
    [][(ClientTakesReply /\ client_reply' = Some(FileAlreadyExistsDatagram))
        => /\ put_result'.tag = "fail"
           /\ put_result'.error.kind = "AlreadyExists"]_vars

\* C26: the client's put goes on to send Data only when the datagram it
\* took after the write request is an Ack of block 0.
C26_SendPhaseNeedsAckZero ==
    [][(ClientTakesReply /\ put_pc' = "read")
        => client_reply' = Some(AckZeroDatagram)]_vars

\* the Data packets that put has handed to its socket, oldest first
DataSent == SelectSeq(put_sent, IsDataDatagram)

\* C27: the first Data packet that put sends carries block 1, never 0; a
\* Data packet made from a fresh read carries the block number of the Data
\* packet before it plus one; and any Data packet carries the number of the
\* one before it or that number plus one.
C27_BlocksCountFromOne ==
    /\ [](DataSent # <<>> => BlockOf(DataSent[1]) = 1)
    /\ [](\A i \in 1..(Len(DataSent) - 1) :
            BlockOf(DataSent[i + 1]) \in
                {BlockOf(DataSent[i]), BlockOf(DataSent[i]) + 1})
    /\ [][(PutReads /\ put_pc' = "recv") =>
            /\ Len(DataSent') = Len(DataSent) + 1
            /\ BlockOf(Last(DataSent')) =
                   IF DataSent = <<>> THEN 1
                   ELSE BlockOf(Last(DataSent)) + 1]_vars

\* C27 witness: put has sent the Data packets of blocks 1 and 2, the second
\* from a fresh read after the Ack of block 1, and some Data packet twice
C27_Witness ==
    /\ Len(DataSent) = 3
    /\ BlockOf(DataSent[1]) = 1
    /\ BlockOf(DataSent[3]) = 2
    /\ reader_pos > MAX_PAYLOAD_SIZE

\* C28: the block number that follows 65535 in put is 0, and put goes on
\* with it.
C28_BlockCounterWraps ==
    (fn_output # None /\ Unwrap(fn_input).block = U16 - 1)
        => fn_output = Some(Ok(0))

\* C29: no decoder panics, whatever the length of the buffer (0 and 1
\* included) and whatever the packet type it decodes for.
C29_DecodeNeverPanics ==
    (fn_output # None /\ Unwrap(fn_input).fn = "from_bytes")
        => fn_output # Some(Panic)

\* the packet is one that the wire format can carry: no String of it holds
\* a NUL
ValidShape(packet) == \A t \in StringsOf(packet) : \A i \in DOMAIN t : t[i] # 0

\* C30: for a packet P of any of the five types that the wire format can
\* carry, decoding the encoding of P as P's type gives P, and decoding it
\* as any other type returns an error.
C30_CodecRoundTrip ==
    (/\ fn_output # None
     /\ Unwrap(fn_input).fn = "round_trip"
     /\ ValidShape(Unwrap(fn_input).packet))
        => /\ fn_output # Some(Panic)
           /\ \A op \in Opcodes :
                IF op = Unwrap(fn_input).packet.header
                THEN Unwrap(fn_output)[op] = Ok(Unwrap(fn_input).packet)
                ELSE IsErr(Unwrap(fn_output)[op])

\* C30 witness: a write request for a file with a name of two bytes of UTF-8
\* in mode netascii has gone through the encoder and the five decoders
C30_Witness ==
    /\ fn_input = Some([fn |-> "round_trip",
                        packet |-> PacketWrq(<<195, 169>>,
                                     <<110, 101, 116, 97, 115, 99, 105, 105>>)])
    /\ fn_output # None
    /\ Unwrap(fn_output) # Panic
    /\ IsOk(Unwrap(fn_output)[OpWrq])

\* the Acks that get has handed to its socket, oldest first
AcksSent == SelectSeq(get_sent, IsAckDatagram)

\* the Ack of block `block` on the wire
AckDatagram(block) == <<0, OpAck>> \o U16IntoBytes(block)

\* C31: once put has sent a Data packet with a payload shorter than 512
\* bytes it sends no Data packet other than that one again, it returns Ok
\* only from awaiting the Ack of such a packet, and having returned it
\* sends nothing; get returns Ok only on sending the Ack of a Data packet
\* with a payload shorter than 512 bytes, and having returned it sends
\* nothing.
C31_StopsAfterFinalBlock ==
    /\ [](\A i \in DOMAIN DataSent :
            Len(PayloadOf(DataSent[i])) < MAX_PAYLOAD_SIZE =>
                \A j \in i..Len(DataSent) : DataSent[j] = DataSent[i])
    /\ [](put_result = Returned =>
            /\ put_pc = "done"
            /\ Len(PayloadOf(Last(DataSent))) < MAX_PAYLOAD_SIZE
            /\ Last(put_rcvd) = AckDatagram(BlockOf(Last(DataSent))))
    /\ [][put_pc' = "done" =>
            (put_pc \in {"recv", "done"} /\ put_sent' = put_sent)]_vars
    /\ [](get_result = Returned =>
            /\ get_pc = "done"
            /\ Last(get_sent) = AckDatagram(Last(written))
            /\ Len(data.data) < MAX_PAYLOAD_SIZE)
    /\ [][(get_pc # "done" /\ get_pc' = "done") =>
            get_sent' = Append(get_sent, AckDatagram(data.block))]_vars
    /\ [][get_pc = "done" => (get_pc' = "done" /\ get_sent' = get_sent)]_vars

\* C31 witness: a source of 513 bytes went over in a full block and a final
\* block of one byte, sent twice; both ends have returned Ok and get has
\* sent its two Acks
C31_Witness ==
    /\ Len(source) = MAX_PAYLOAD_SIZE + 1
    /\ put_pc = "done" /\ put_result = Returned
    /\ get_pc = "done" /\ get_result = Returned
    /\ Len(DataSent) = 3
    /\ DataSent[2] = DataSent[3]
    /\ Len(PayloadOf(DataSent[3])) = 1
    /\ Len(AcksSent) = 2

\* the step is a read deadline expiring in get
GetDeadlineExpires == timeouts' = timeouts + 1 /\ put_retrans' = put_retrans

\* C32: when a read deadline expires in get before get has sent any Ack,
\* get returns the timeout error in that step, whatever max_retransmissions
\* is, and sends nothing: it has sent no datagram at all when it returns.
C32_FirstAwaitTimeoutFails ==
    [][(GetDeadlineExpires /\ last_block = None) =>
          /\ get_pc' = "failed"
          /\ get_result' = Fail(TimeoutError)
          /\ get_retrans' = 0
          /\ get_sent' = <<>>
          /\ to_put' = to_put
          /\ writer' = <<>>]_vars

\* C32 witness: with no cap on retransmissions, get has returned the
\* timeout error of its first await and has sent nothing, while put is
\* still awaiting the Ack of its first Data packet
C32_Witness ==
    /\ max_retransmissions = None
    /\ get_pc = "failed"
    /\ get_result = Fail(TimeoutError)
    /\ get_nrecv = 0
    /\ get_sent = <<>>
    /\ put_pc = "recv"
    /\ timeouts = 1

\* the cap on retransmissions, when there is one
Cap == Unwrap(max_retransmissions)

\* C33: every Ack that get sends for a Data packet it has written sets its
\* count of retransmissions to 0, and a read deadline that expires once get
\* has sent an Ack leads to a retransmission of the last Ack exactly when
\* that count is below the cap: the cap bounds the retransmissions since
\* the last Data packet, not those of the whole transfer.
C33_GetCountsPerBlock ==
    /\ [][(get_pc = "ack" /\ get_pc' \in {"recv", "done"}) =>
            get_retrans' = 0]_vars
    /\ [][(GetDeadlineExpires /\ last_block # None) =>
            IF get_retrans < Cap
            THEN /\ get_pc' = "recv"
                 /\ get_retrans' = get_retrans + 1
                 /\ get_sent' =
                        Append(get_sent, AckDatagram(Unwrap(last_block)))
            ELSE /\ get_pc' = "failed"
                 /\ get_result' = Fail(TimeoutError)]_vars

\* C33 witness: under the cap Some(1) get has sent the Ack of block 1 twice
\* and, after the Data packet of block 2, the Ack of block 2 twice, and
\* awaits again
C33_Witness ==
    /\ max_retransmissions = Some(1)
    /\ get_pc = "recv"
    /\ get_retrans = 1
    /\ AcksSent = <<AckDatagram(1), AckDatagram(1),
                    AckDatagram(2), AckDatagram(2)>>

\* the Data packets that put has sent again after a timeout, so far
DataRetransmissions == Len(DataSent) - Cardinality(DataBlocksSent)

\* C34: put's count of retransmissions never goes down: it is the number
\* of Data packets sent again over the whole transfer, all blocks
\* together, and never above the cap while put runs; the read deadline
\* that expires with the count at the cap ends put with the timeout error,
\* whatever has been acknowledged before.
C34_PutCountsPerTransfer ==
    /\ [][put_retrans' >= put_retrans]_vars
    /\ [](put_pc \in {"read", "recv", "done"} =>
            /\ put_retrans = DataRetransmissions
            /\ DataRetransmissions <= Cap)
    /\ [][(PutTimesOut /\ put_retrans = Cap) =>
            /\ put_pc' = "failed"
            /\ put_result' = Fail(TimeoutError)
            /\ put_sent' = Append(put_sent, ExceededDatagram)]_vars

\* C34 witness: under the cap Some(1) put sent the Data packet of block 1
\* twice, took its Ack, sent block 2 once, and has failed at the timeout
\* that followed
C34_Witness ==
    /\ max_retransmissions = Some(1)
    /\ put_pc = "failed"
    /\ put_result = Fail(TimeoutError)
    /\ 1 \in AcksReceived
    /\ Len(DataSent) = 3
    /\ BlockOf(DataSent[2]) = 1
    /\ BlockOf(DataSent[3]) = 2

\* C35: whatever block number a datagram that decodes as Data carries (the
\* next one, that of the last block acknowledged, any other), get writes
\* its payload after what it has written so far, unless the writer fails,
\* and then sends the Ack of that block number.
C35_NoBlockValidation ==
    /\ [][(GetReceives /\ DecodesAs(OpData, GetDatagram)) =>
            \/ /\ get_pc' = "ack"
               /\ writer' = writer \o PayloadOf(GetDatagram)
               /\ written' = Append(written, BlockOf(GetDatagram))
            \/ /\ get_pc' = "failed"
               /\ get_result'.tag = "fail"
               /\ get_result'.error \in StreamErrors
               /\ PayloadOf(GetDatagram) # <<>>]_vars
    /\ [][(get_pc = "ack" /\ get_pc' # "ack") =>
            get_sent' = Append(get_sent, AckDatagram(Last(written)))]_vars
    /\ [](Len(AcksSent) <= Len(written))

\* C35 witness: after the Data packet of block 1 get took one of block 9:
\* it has written both payloads and acknowledged 1 and then 9
C35_Witness ==
    /\ written = <<1, 9>>
    /\ writer = source \o <<7>>
    /\ Len(source) = MAX_PAYLOAD_SIZE
    /\ get_sent = <<AckDatagram(1), AckDatagram(9)>>

\* the step is a read deadline expiring in put
PutDeadlineExpires ==
    timeouts' = timeouts + 1 /\ get_pc' = get_pc /\ get_retrans' = get_retrans

\* the count is such that check_retransmission permits one more
Permitted(count) == max_retransmissions = None \/ count < Cap

\* C36: a read deadline that expires when a retransmission is permitted
\* leaves the engine awaiting, with its count of retransmissions one
\* higher and everything else of it as it was: in put the current block,
\* the position in the reader, the bytes read and the Data packet; in get
\* the last block acknowledged and the bytes written to the writer; in both
\* the value to return. The other engine is untouched.
C36_RetransmissionFrame ==
    /\ [][(PutDeadlineExpires /\ Permitted(put_retrans)) =>
            /\ put_retrans' = put_retrans + 1
            /\ put_pc' = put_pc
            /\ current_block' = current_block
            /\ reader_pos' = reader_pos
            /\ bytes_read' = bytes_read
            /\ data_bytes' = data_bytes
            /\ put_result' = put_result
            /\ put_rcvd' = put_rcvd
            /\ get_vars' = get_vars]_vars
    /\ [][(GetDeadlineExpires /\ last_block # None /\ Permitted(get_retrans)) =>
            /\ get_retrans' = get_retrans + 1
            /\ get_pc' = get_pc
            /\ last_block' = last_block
            /\ writer' = writer
            /\ written' = written
            /\ data' = data
            /\ get_result' = get_result
            /\ get_nrecv' = get_nrecv
            /\ put_vars' = put_vars]_vars

\* C36 witness: with a source of 513 bytes, put awaits the Ack of block 2
\* after one retransmission and get, which has written block 1 only, awaits
\* after one retransmission of its Ack
C36_Witness ==
    /\ Len(source) = MAX_PAYLOAD_SIZE + 1
    /\ put_pc = "recv" /\ current_block = 2 /\ put_retrans = 1
    /\ reader_pos = Len(source)
    /\ get_pc = "recv" /\ last_block = Some(1) /\ get_retrans = 1
    /\ Len(writer) = MAX_PAYLOAD_SIZE

\* the payloads of the Data packets sent, from the k-th on, one after the
\* other, a packet sent again counted once
RECURSIVE PayloadsFrom(_)
PayloadsFrom(k) ==
    IF k > Len(DataSent) THEN <<>>
    ELSE (IF k > 1 /\ DataSent[k] = DataSent[k - 1] THEN <<>>
          ELSE PayloadOf(DataSent[k])) \o PayloadsFrom(k + 1)

\* C37: when put has returned Ok, the payloads of the distinct Data blocks
\* it sent are, one after the other, all the bytes of the reader, also for
\* a reader that yields fewer than 512 bytes in a read before its end.
C37_SendsWholeReader ==
    put_result = Returned => PayloadsFrom(1) = source

\* get has sent the Ack of a Data packet with a payload shorter than 512
\* bytes, the final one
FinalAcked ==
    /\ get_sent # <<>>
    /\ get_pc # "ack"
    /\ IsLastData(data.data)
    /\ Last(get_sent) = AckDatagram(data.block)

\* the Ack of the final Data packet is lost: put awaits it, get is gone
\* and no datagram is on its way to put
FinalAckLost == FinalAcked /\ put_pc = "recv" /\ to_put = <<>>

\* C38: get does not dally.  Having sent the Ack of the final Data packet
\* it has returned Ok, and from then on it sends nothing and no datagram
\* reaches put; if that Ack is lost, whatever put sends from then on is the
\* final Data packet once more, which nobody receives, or the Error packet
\* on giving up, and put, its cap being Some(N), ends with the error of the
\* expired deadline while get has returned Ok.
C38_ReceiverDoesNotDally ==
    /\ [](FinalAcked => (get_pc = "done" /\ get_result = Returned))
    /\ [][FinalAcked =>
            /\ get_sent' = get_sent
            /\ Len(to_put') <= Len(to_put)
            /\ to_get' = <<>>]_vars
    /\ [][(FinalAckLost /\ put_sent' # put_sent) =>
            \/ /\ put_pc' = "recv"
               /\ put_sent' = Append(put_sent, Last(DataSent))
               /\ put_retrans' = put_retrans + 1
            \/ /\ put_pc' = "failed"
               /\ put_sent' = Append(put_sent, ExceededDatagram)]_vars
    /\ (FinalAckLost ~>
            (put_result = Fail(TimeoutError) /\ get_result = Returned))

\* C38 witness: under a cap of Some(1), get has returned Ok after its one
\* Ack, which was lost; put has sent its only Data packet twice and has
\* returned the timeout error at the second deadline
C38_Witness ==
    /\ max_retransmissions = Some(1)
    /\ get_pc = "done" /\ get_result = Returned
    /\ Len(AcksSent) = 1
    /\ put_rcvd = <<>>
    /\ put_pc = "failed" /\ put_result = Fail(TimeoutError)
    /\ put_retrans = 2
    /\ Len(DataSent) = 2 /\ DataSent[1] = DataSent[2]

====
